---- MODULE Spec2Model ----
(***************************************************************************)
(* Model of python-refactor-mcp: the JSON-RPC session of LSPClient         *)
(* (lsp_client.py), the edit engine of WorkspaceEditManager                *)
(* (workspace_edit.py) and the tool facade of PythonRefactorMCPServer      *)
(* (mcp_server.py).                                                        *)
(*                                                                         *)
(* Nine specifications share the module:                                   *)
(*   SessionSpec  the request/response correlation of one LSPClient        *)
(*   LifecycleSpec  start, requests and shutdown of one LSPClient whose    *)
(*                backend process may exit                                 *)
(*   EditSpec     _apply_text_edits on one file with a list of edits       *)
(*   SingleSpec   _apply_single_edit on one list of lines                  *)
(*   FacadeSpec   the tools of the MCP server acting on the disk           *)
(*   ApplySpec    one apply_workspace_edit call, for every plan            *)
(*   DocumentSpec concurrent document calls of one LSPClient               *)
(*   FrameSpec    concurrent _send_message calls on one stream             *)
(*   UriSpec      apply_workspace_edit on a plan keyed by any identifier   *)
(* Text is a sequence of one-character strings.                            *)
(***************************************************************************)
EXTENDS Integers, Sequences, FiniteSets, TLC

VARIABLES
    \* ---- LSPClient (lsp_client.py, __init__) ----
    message_id,          \* self.message_id
    pending_requests,    \* self.pending_requests: request id -> call owning the future
    initialized,         \* self.initialized
    server_capabilities, \* self.server_capabilities
    read_task,           \* "none" | "running" | "done": the _read_responses task
    sent,                \* frames written to the backend's stdin, in write order
    start_pc,            \* position of start(): "new" | "handshake" | "notifying" | "started" | "failed" | "not_found"
    \* ---- one send_request invocation per call ----
    pc,                  \* position of the call inside send_request
    request_id,          \* the local request_id of the call
    future,              \* the asyncio.Future the call created
    outcome,             \* what send_request returned or raised to its caller
    \* ---- history (not program state) ----
    resolvedBy,          \* the inbound message whose processing completed the call's future
    lateReplyTo,         \* the finished call whose id the last orphaned reply carried
    allocOrder,          \* the calls in the order they were given an id
    \* ---- LSPClient: the subprocess and shutdown() ----
    process,             \* self.process: "none" | "running" | "exited"
    stdin_writer,        \* self.stdin_writer: "none" | "open" | "closed" | "lost"
    shutdown_pc,         \* where shutdown() stands, "returned" and "raised" at its end
    signals,             \* the signals sent to the subprocess
    \* ---- WorkspaceEditManager._apply_text_edits on one file ----
    content,             \* the bytes of the file on disk before the call
    text_edits,          \* the edits listed for the file in the plan
    new_content,         \* the bytes of the file on disk after the call
    edit_pc,             \* "input" | "done"
    \* ---- WorkspaceEditManager._apply_single_edit on one list of lines ----
    lines,               \* the lines argument
    edit,                \* start_line, start_char, end_line, end_char, new_text
    result,              \* the returned list of lines
    single_pc,           \* "input" | "done"
    \* ---- PythonRefactorMCPServer: the tools and the files they work on ----
    disk,                \* file -> [exists, bytes]
    open_documents,      \* LSPClient.open_documents
    lsp_initialized,     \* self.lsp_client.initialized as call_tool reads it
    name,                \* the tool name of the handler that took the last step
    response,            \* what the last finished call returned
    facade_pc,           \* "new" | "idle" | "applying" | "requesting"
    pending_changes,     \* the entries of the plan apply has still to process
    modified_files,      \* the list apply_workspace_edit builds
    notified,            \* the notifications the last step sent
    \* ---- one apply_workspace_edit call seen from outside ----
    workspace_edit,      \* the plan the call was given
    disk_before,         \* the files when the call was made
    \* ---- concurrent document calls on one LSPClient ----
    document_call,       \* per call: position, file, what it saw and what it wrote
    wire,                \* the notifications written to the backend, in order
    \* ---- concurrent _send_message calls and the write transport ----
    frame_call,          \* per call: position and the writes it has still to make
    buffer,              \* bytes the transport accepted and has not written yet
    pipe,                \* bytes written to the backend's stdin, in order
    \* ---- apply_workspace_edit on a plan keyed by a URI ----
    file_path,           \* the path _uri_to_path returned for the entry, <<>> before
    \* ---- PythonRefactorMCPServer: one handler call with a position ----
    arguments,           \* the arguments call_tool passed to the handler, <<>> before
    request_params       \* the params of the request the handler sent, <<>> if none

sessionVars == <<message_id, pending_requests, initialized, server_capabilities,
                 read_task, sent, start_pc, pc, request_id, future, outcome,
                 resolvedBy, lateReplyTo, allocOrder, process, stdin_writer,
                 shutdown_pc, signals>>

\* the part of the session that only start(), shutdown() and the backend change
lifeVars == <<process, stdin_writer, shutdown_pc, signals>>

editVars == <<content, text_edits, new_content, edit_pc>>

singleVars == <<lines, edit, result, single_pc>>

facadeVars == <<disk, open_documents, lsp_initialized, name, response, facade_pc,
                pending_changes, modified_files, notified>>

applyVars == <<workspace_edit, disk_before>>

documentVars == <<document_call, wire>>

frameVars == <<frame_call, buffer, pipe>>

uriVars == <<file_path>>

positionVars == <<arguments, request_params>>

vars == <<sessionVars, editVars, singleVars, facadeVars, applyVars, documentVars,
          frameVars, uriVars, positionVars>>

\* what the actions of one specification leave alone
nonSessionVars == <<editVars, singleVars, facadeVars, applyVars, documentVars,
                     frameVars, uriVars, positionVars>>
nonEditVars == <<sessionVars, singleVars, facadeVars, applyVars, documentVars,
                  frameVars, uriVars, positionVars>>
nonSingleVars == <<sessionVars, editVars, facadeVars, applyVars, documentVars,
                    frameVars, uriVars, positionVars>>
nonFacadeVars == <<sessionVars, editVars, singleVars, applyVars, documentVars,
                    frameVars, uriVars, positionVars>>
nonDocumentVars == <<sessionVars, editVars, singleVars, applyVars, frameVars, uriVars,
                     positionVars>>
nonFrameVars == <<sessionVars, editVars, singleVars, facadeVars, applyVars, documentVars,
                  uriVars, positionVars>>
nonPositionVars == <<sessionVars, editVars, singleVars, applyVars, documentVars,
                     frameVars, uriVars>>
nonUriVars == <<sessionVars, editVars, singleVars, documentVars, frameVars,
                positionVars>>

----------------------------------------------------------------------------
(* Bounds of the session model *)

MaxCalls == 2

HandshakeCall == 0
UserCalls == 1 .. MaxCalls
Calls == {HandshakeCall} \cup UserCalls

NoCall == MaxCalls + 1

\* ids the backend may put on an inbound message: every id the session can
\* allocate (one per call) and one it never allocates (0).
Ids == 0 .. (MaxCalls + 1)
Payloads == {"p1", "p2"}

NoValue == "-"

\* An inbound JSON-RPC message, by the members _process_message looks at.
Message(hasId, id, member, payload) ==
    [hasId |-> hasId, id |-> id, member |-> member, payload |-> payload]

Messages ==
    {Message(TRUE, i, "result", p) : i \in Ids, p \in Payloads}
    \cup {Message(TRUE, i, "error", "p1") : i \in Ids}
    \cup {Message(TRUE, i, m, NoValue) : i \in Ids, m \in {"method", "none"}}
    \cup {Message(FALSE, 0, m, NoValue) : m \in {"method", "none"}}

NoMessage == Message(FALSE, 0, "nothing", NoValue)

Fut(st, val) == [st |-> st, val |-> val]
Out(kind, val) == [kind |-> kind, val |-> val]

Frame(kind, id, method) == [kind |-> kind, id |-> id, method |-> method]

----------------------------------------------------------------------------
(* LSPClient.__init__ *)

SessionInit ==
    /\ message_id = 0
    /\ pending_requests = [i \in {} |-> HandshakeCall]
    /\ initialized = FALSE
    /\ server_capabilities = NoValue
    /\ read_task = "none"
    /\ sent = <<>>
    /\ start_pc = "new"
    /\ pc = [c \in Calls |-> "idle"]
    /\ request_id = [c \in Calls |-> 0]
    /\ future = [c \in Calls |-> Fut("none", NoValue)]
    /\ outcome = [c \in Calls |-> Out("none", NoValue)]
    /\ resolvedBy = [c \in Calls |-> NoMessage]
    /\ lateReplyTo = NoCall
    /\ allocOrder = <<>>
    /\ process = "none"
    /\ stdin_writer = "none"
    /\ shutdown_pc = "idle"
    /\ signals = <<>>

----------------------------------------------------------------------------
(* LSPClient.send_request, lines 192-210: the part that runs without a      *)
(* suspension point, up to the await of stdin_writer.drain().              *)

\* self.message_id += 1
NextMessageId(mid) == mid + 1

RequestIdStale(mid) == mid
\* request_id = self.message_id, read after the increment
RequestId(mid) == NextMessageId(mid)

\* self.pending_requests[request_id] = future
Register(pr, id, c) == [i \in (DOMAIN pr) \cup {id} |-> IF i = id THEN c ELSE pr[i]]

\* the removal done by pop (line 313)
Unregister(pr, id) == [i \in (DOMAIN pr) \ {id} |-> pr[i]]

TimeoutKeep(pr, id) == pr
\* del self.pending_requests[request_id] (line 217)
TimeoutRemove(pr, id) == Unregister(pr, id)

\* stdin_writer.write (line 252): the transport of a closed or lost pipe drops
\* the bytes
Written(frames, writer, frame) ==
    IF writer = "open" THEN Append(frames, frame) ELSE frames

SendRequestSync(c, method, writer) ==
    /\ message_id' = NextMessageId(message_id)
    /\ request_id' = [request_id EXCEPT ![c] = RequestId(message_id)]
    /\ future' = [future EXCEPT ![c] = Fut("pending", NoValue)]
    /\ pending_requests' = Register(pending_requests, RequestId(message_id), c)
    /\ sent' = Written(sent, writer, Frame("request", RequestId(message_id), method))
    /\ pc' = [pc EXCEPT ![c] = "draining"]
    /\ allocOrder' = Append(allocOrder, c)

\* variant of Rejected without the gate
NeverRejected(init, method) == FALSE

\* send_request, lines 192-193: the gate on the initialized flag
Rejected(init, method) == ~init /\ method # "initialize"

\* send_request called by a tool or by any other caller (never "initialize":
\* only _initialize sends that method). The calls are numbered in the order
\* in which they are made.
Request(c) ==
    /\ c \in UserCalls
    /\ pc[c] = "idle"
    /\ \A d \in UserCalls : d < c => pc[d] # "idle"
    /\ IF Rejected(initialized, "other")
         THEN /\ pc' = [pc EXCEPT ![c] = "done"]
              /\ outcome' = [outcome EXCEPT ![c] = Out("not_initialized", NoValue)]
              /\ UNCHANGED <<message_id, request_id, future, pending_requests, sent,
                             allocOrder>>
         ELSE /\ SendRequestSync(c, "other", stdin_writer)
              /\ UNCHANGED outcome
    /\ UNCHANGED <<initialized, server_capabilities, read_task, start_pc,
                   resolvedBy, lateReplyTo>>
    /\ UNCHANGED lifeVars
    /\ UNCHANGED nonSessionVars

\* _send_message, line 253: drain() returns and send_request goes on to
\* asyncio.wait_for(future, timeout=30.0); on a closed or lost pipe drain()
\* raises ConnectionResetError, which leaves send_request at line 210.
Drained(c) ==
    /\ pc[c] = "draining"
    /\ IF stdin_writer = "open"
         THEN /\ pc' = [pc EXCEPT ![c] = "waiting"]
              /\ UNCHANGED outcome
         ELSE /\ pc' = [pc EXCEPT ![c] = "done"]
              /\ outcome' = [outcome EXCEPT ![c] = Out("connection_lost", NoValue)]
    /\ UNCHANGED <<message_id, pending_requests, initialized, server_capabilities,
                   read_task, sent, start_pc, request_id, future,
                   resolvedBy, lateReplyTo, allocOrder>>
    /\ UNCHANGED lifeVars
    /\ UNCHANGED nonSessionVars

\* wait_for returns the future's result, or re-raises its exception (lines 214-215).
Return(c) ==
    /\ pc[c] = "waiting"
    /\ future[c].st \in {"result", "exception"}
    /\ pc' = [pc EXCEPT ![c] = "done"]
    /\ outcome' = [outcome EXCEPT ![c] =
                     Out(IF future[c].st = "result" THEN "result" ELSE "lsp_error",
                         future[c].val)]
    /\ UNCHANGED <<message_id, pending_requests, initialized, server_capabilities,
                   read_task, sent, start_pc, request_id, future,
                   resolvedBy, lateReplyTo, allocOrder>>
    /\ UNCHANGED lifeVars
    /\ UNCHANGED nonSessionVars

\* The 30 s of wait_for elapse while the future is not done: wait_for cancels
\* the future; the except clause of send_request runs when the caller's task
\* is scheduled next.
TimeoutFire(c) ==
    /\ pc[c] = "waiting"
    /\ future[c].st = "pending"
    /\ future' = [future EXCEPT ![c] = Fut("cancelled", NoValue)]
    /\ pc' = [pc EXCEPT ![c] = "timing_out"]
    /\ UNCHANGED <<message_id, pending_requests, initialized, server_capabilities,
                   read_task, sent, start_pc, request_id, outcome,
                   resolvedBy, lateReplyTo, allocOrder>>
    /\ UNCHANGED lifeVars
    /\ UNCHANGED nonSessionVars

\* except asyncio.TimeoutError (lines 216-218): del raises KeyError when the
\* reader has popped the entry already, and the RuntimeError is never raised.
TimeoutHandle(c) ==
    /\ pc[c] = "timing_out"
    /\ pc' = [pc EXCEPT ![c] = "done"]
    /\ IF request_id[c] \in DOMAIN pending_requests
         THEN /\ pending_requests' = TimeoutRemove(pending_requests, request_id[c])
              /\ outcome' = [outcome EXCEPT ![c] = Out("timed_out", NoValue)]
         ELSE /\ outcome' = [outcome EXCEPT ![c] = Out("key_error", NoValue)]
              /\ UNCHANGED pending_requests
    /\ UNCHANGED <<message_id, initialized, server_capabilities,
                   read_task, sent, start_pc, request_id, future,
                   resolvedBy, lateReplyTo, allocOrder>>
    /\ UNCHANGED lifeVars
    /\ UNCHANGED nonSessionVars

----------------------------------------------------------------------------
(* LSPClient._process_message, lines 303-335, run by the reader task.       *)

PopOldest(pr, id) == IF DOMAIN pr = {} THEN id
                     ELSE CHOOSE i \in DOMAIN pr : \A j \in DOMAIN pr : i <= j
\* the key pop(request_id, None) looks up: the id of the message
PopKey(pr, id) == id

\* The effect of _process_message(m) on the pending map and the futures:
\* crashed is TRUE when it raises (set_result / set_exception on a future that
\* wait_for has cancelled raises InvalidStateError), resolved is the call
\* whose future it completed.
ProcessResult(pr, fut, m) ==
    IF m.hasId /\ PopKey(pr, m.id) \in DOMAIN pr
      THEN LET k == PopKey(pr, m.id)
               c == pr[k]
           IN IF m.member \in {"result", "error"}
                THEN IF fut[c].st = "pending"
                       THEN [pending |-> Unregister(pr, k),
                             future |-> [fut EXCEPT ![c] =
                                           Fut(IF m.member = "result" THEN "result"
                                               ELSE "exception", m.payload)],
                             crashed |-> FALSE, resolved |-> c]
                       ELSE [pending |-> Unregister(pr, k), future |-> fut,
                             crashed |-> TRUE, resolved |-> NoCall]
                ELSE [pending |-> Unregister(pr, k), future |-> fut,
                      crashed |-> FALSE, resolved |-> NoCall]
      ELSE [pending |-> pr, future |-> fut, crashed |-> FALSE, resolved |-> NoCall]

\* the finished calls that were given the id of message m
FinishedWithId(m) ==
    {c \in Calls : m.hasId /\ pc[c] = "done" /\ future[c].st # "none"
                   /\ request_id[c] = m.id}

ProcessMessage(m) ==
    LET r == ProcessResult(pending_requests, future, m)
    IN /\ pending_requests' = r.pending
       /\ future' = r.future
       \* an exception leaves _read_responses through except Exception (line 300)
       /\ read_task' = IF r.crashed THEN "done" ELSE read_task
       /\ resolvedBy' = IF r.resolved = NoCall THEN resolvedBy
                        ELSE [resolvedBy EXCEPT ![r.resolved] = m]
       /\ lateReplyTo' = IF FinishedWithId(m) = {} \/ m.member \notin {"result", "error"}
                           THEN lateReplyTo
                           ELSE CHOOSE c \in FinishedWithId(m) : TRUE

\* _read_responses, lines 267-296: one complete frame is read and processed.
Receive(m) ==
    /\ read_task = "running"
    /\ ProcessMessage(m)
    /\ UNCHANGED <<message_id, initialized, server_capabilities, sent, start_pc,
                   pc, request_id, outcome, allocOrder>>
    /\ UNCHANGED lifeVars
    /\ UNCHANGED nonSessionVars

\* readline returns b"" (line 275): the loop returns.
ReceiveEOF ==
    /\ read_task = "running"
    /\ read_task' = "done"
    /\ UNCHANGED <<message_id, pending_requests, initialized, server_capabilities,
                   sent, start_pc, pc, request_id, future, outcome,
                   resolvedBy, lateReplyTo, allocOrder>>
    /\ UNCHANGED lifeVars
    /\ UNCHANGED nonSessionVars

\* the body of a frame is not JSON, or its Content-Length is not a number
\* (lines 286-292): the exception is caught at line 300 and the loop ends.
ReceiveMalformed ==
    /\ read_task = "running"
    /\ read_task' = "done"
    /\ UNCHANGED <<message_id, pending_requests, initialized, server_capabilities,
                   sent, start_pc, pc, request_id, future, outcome,
                   resolvedBy, lateReplyTo, allocOrder>>
    /\ UNCHANGED lifeVars
    /\ UNCHANGED nonSessionVars

----------------------------------------------------------------------------
(* LSPClient.start and _initialize, lines 59-90 and 118-176.               *)

\* variant of StartedTask in which the reader task is created before the lookup
StartedTaskEarly(found) == "running"

\* lines 66-83: the reader task is created after the executable was found and
\* the subprocess spawned
StartedTask(found) == IF found THEN "running" ELSE "none"

\* _find_pyright returns None: RuntimeError before anything is spawned.
StartNotFound ==
    /\ start_pc = "new"
    /\ shutdown_pc = "idle"
    /\ start_pc' = "not_found"
    /\ read_task' = StartedTask(FALSE)
    /\ UNCHANGED <<message_id, pending_requests, initialized, server_capabilities,
                   sent, pc, request_id, future, outcome,
                   resolvedBy, lateReplyTo, allocOrder>>
    /\ UNCHANGED lifeVars
    /\ UNCHANGED nonSessionVars

\* the subprocess is spawned, the reader task created and _initialize sends
\* the "initialize" request.
StartSpawn ==
    /\ start_pc = "new"
    /\ shutdown_pc = "idle"
    /\ start_pc' = "handshake"
    /\ process' = "running"
    /\ stdin_writer' = "open"
    /\ read_task' = StartedTask(TRUE)
    /\ SendRequestSync(HandshakeCall, "initialize", "open")
    /\ UNCHANGED <<initialized, server_capabilities, outcome, resolvedBy, lateReplyTo,
                   shutdown_pc, signals>>
    /\ UNCHANGED nonSessionVars

\* variant of HandshakeReplied in which the notification is written and the
\* flag set whatever became of the initialize request
HandshakeRepliedUnchecked ==
    /\ start_pc = "handshake"
    /\ pc[HandshakeCall] = "done"
    /\ server_capabilities' = outcome[HandshakeCall].val
    /\ sent' = Written(sent, stdin_writer, Frame("notification", 0, "initialized"))
    /\ start_pc' = "notifying"
    /\ UNCHANGED <<message_id, pending_requests, initialized, read_task, pc,
                   request_id, future, outcome, resolvedBy, lateReplyTo, allocOrder>>
    /\ UNCHANGED lifeVars
    /\ UNCHANGED nonSessionVars

\* line 169 returns: capabilities stored, "initialized" notification written
\* (drain raises when the stream to the backend is gone).
HandshakeReplied ==
    /\ start_pc = "handshake"
    /\ pc[HandshakeCall] = "done"
    /\ IF outcome[HandshakeCall].kind = "result"
         THEN /\ server_capabilities' = outcome[HandshakeCall].val
              /\ sent' = Written(sent, stdin_writer, Frame("notification", 0, "initialized"))
              /\ start_pc' = IF stdin_writer = "open" THEN "notifying" ELSE "failed"
         ELSE /\ start_pc' = "failed"
              /\ UNCHANGED <<server_capabilities, sent>>
    /\ UNCHANGED <<message_id, pending_requests, initialized, read_task, pc,
                   request_id, future, outcome, resolvedBy, lateReplyTo, allocOrder>>
    /\ UNCHANGED lifeVars
    /\ UNCHANGED nonSessionVars

\* drain() of the notification returns: self.initialized = True (line 175).
HandshakeDone ==
    /\ start_pc = "notifying"
    /\ start_pc' = "started"
    /\ initialized' = TRUE
    /\ UNCHANGED <<message_id, pending_requests, server_capabilities, read_task,
                   sent, pc, request_id, future, outcome, resolvedBy, lateReplyTo,
                   allocOrder>>
    /\ UNCHANGED lifeVars
    /\ UNCHANGED nonSessionVars

----------------------------------------------------------------------------
(* LSPClient.shutdown, lines 427-462, and the backend process.  The request *)
(* that shutdown() sends takes the last call slot.                          *)

ShutdownCall == MaxCalls

\* the backend process exits (on its own, or after a signal); its pipes are lost
BackendExit ==
    /\ process = "running"
    /\ process' = "exited"
    /\ stdin_writer' = IF stdin_writer = "open" THEN "lost" ELSE stdin_writer
    /\ UNCHANGED <<message_id, pending_requests, initialized, server_capabilities,
                   read_task, sent, start_pc, pc, request_id, future, outcome,
                   resolvedBy, lateReplyTo, allocOrder, shutdown_pc, signals>>
    /\ UNCHANGED nonSessionVars

\* lines 433-436: send_request("shutdown") when the flag is true.  The callers
\* (__main__.py 78-93, test_stop_without_start) call shutdown() once, on a
\* client that was never started or whose start() has ended.
ShutdownBegin ==
    /\ shutdown_pc = "idle"
    /\ start_pc \notin {"handshake", "notifying"}
    /\ IF initialized
         THEN /\ SendRequestSync(ShutdownCall, "shutdown", stdin_writer)
              /\ shutdown_pc' = "requesting"
         ELSE /\ shutdown_pc' = "cancelling"
              /\ UNCHANGED <<message_id, request_id, future, pending_requests, sent, pc,
                             allocOrder>>
    /\ UNCHANGED <<initialized, server_capabilities, read_task, start_pc, outcome,
                   resolvedBy, lateReplyTo, process, stdin_writer, signals>>
    /\ UNCHANGED nonSessionVars

\* lines 435-438: the request returned and the "exit" notification is written,
\* or the request raised and the except clause logs the error
ShutdownRequested ==
    /\ shutdown_pc = "requesting"
    /\ pc[ShutdownCall] = "done"
    /\ sent' = IF outcome[ShutdownCall].kind = "result"
                 THEN Written(sent, stdin_writer, Frame("notification", 0, "exit"))
                 ELSE sent
    /\ shutdown_pc' = "cancelling"
    /\ UNCHANGED <<message_id, pending_requests, initialized, server_capabilities,
                   read_task, start_pc, pc, request_id, future, outcome,
                   resolvedBy, lateReplyTo, allocOrder, process, stdin_writer, signals>>
    /\ UNCHANGED nonSessionVars

\* variant of ShutdownCancelReader that leaves the reader task running
ShutdownCancelReaderSkipped ==
    /\ shutdown_pc = "cancelling"
    /\ shutdown_pc' = "closing"
    /\ UNCHANGED <<message_id, pending_requests, initialized, server_capabilities,
                   read_task, sent, start_pc, pc, request_id, future, outcome,
                   resolvedBy, lateReplyTo, allocOrder, process, stdin_writer, signals>>
    /\ UNCHANGED nonSessionVars

\* lines 441-446: the reader task is cancelled and awaited
ShutdownCancelReader ==
    /\ shutdown_pc = "cancelling"
    /\ read_task' = IF read_task = "running" THEN "cancelled" ELSE read_task
    /\ shutdown_pc' = "closing"
    /\ UNCHANGED <<message_id, pending_requests, initialized, server_capabilities,
                   sent, start_pc, pc, request_id, future, outcome,
                   resolvedBy, lateReplyTo, allocOrder, process, stdin_writer, signals>>
    /\ UNCHANGED nonSessionVars

\* lines 449-451: stdin_writer.close() and wait_closed()
ShutdownCloseStream ==
    /\ shutdown_pc = "closing"
    /\ stdin_writer' = IF stdin_writer = "open" THEN "closed" ELSE stdin_writer
    /\ shutdown_pc' = "stopping"
    /\ UNCHANGED <<message_id, pending_requests, initialized, server_capabilities,
                   read_task, sent, start_pc, pc, request_id, future, outcome,
                   resolvedBy, lateReplyTo, allocOrder, process, signals>>
    /\ UNCHANGED nonSessionVars

\* variant of Terminate without the test of self.process
TerminateUnguarded(proc) == IF proc = "running" THEN "waiting" ELSE "raised"

\* lines 454-457: no process, nothing to do; terminate() on a process that has
\* exited raises ProcessLookupError, which the except clause for TimeoutError
\* does not catch; otherwise the signal is sent and the exit awaited
Terminate(proc) ==
    CASE proc = "none" -> "returned"
      [] proc = "exited" -> "raised"
      [] proc = "running" -> "waiting"

ShutdownTerminate ==
    /\ shutdown_pc = "stopping"
    /\ shutdown_pc' = Terminate(process)
    /\ signals' = IF process = "running" THEN Append(signals, "terminate") ELSE signals
    /\ UNCHANGED <<message_id, pending_requests, initialized, server_capabilities,
                   read_task, sent, start_pc, pc, request_id, future, outcome,
                   resolvedBy, lateReplyTo, allocOrder, process, stdin_writer>>
    /\ UNCHANGED nonSessionVars

\* line 457: process.wait() returns within the 5 s
ShutdownWaited ==
    /\ shutdown_pc = "waiting"
    /\ process = "exited"
    /\ shutdown_pc' = "returned"
    /\ UNCHANGED <<message_id, pending_requests, initialized, server_capabilities,
                   read_task, sent, start_pc, pc, request_id, future, outcome,
                   resolvedBy, lateReplyTo, allocOrder, process, stdin_writer, signals>>
    /\ UNCHANGED nonSessionVars

\* lines 458-460: the 5 s elapse, the process is killed and awaited
ShutdownKill ==
    /\ shutdown_pc = "waiting"
    /\ process = "running"
    /\ signals' = Append(signals, "kill")
    /\ process' = "exited"
    /\ shutdown_pc' = "returned"
    /\ UNCHANGED <<message_id, pending_requests, initialized, server_capabilities,
                   read_task, sent, start_pc, pc, request_id, future, outcome,
                   resolvedBy, lateReplyTo, allocOrder, stdin_writer>>
    /\ UNCHANGED nonSessionVars

----------------------------------------------------------------------------

SessionNext ==
    \/ StartNotFound
    \/ StartSpawn
    \/ HandshakeReplied
    \/ HandshakeDone
    \/ \E c \in UserCalls : Request(c)
    \/ \E c \in Calls : Drained(c)
    \/ \E c \in Calls : Return(c)
    \/ \E c \in Calls : TimeoutFire(c)
    \/ \E c \in Calls : TimeoutHandle(c)
    \/ \E m \in Messages : Receive(m)
    \/ ReceiveEOF
    \/ ReceiveMalformed

\* the other components are not in use
EditIdle ==
    /\ content = <<>>
    /\ text_edits = <<>>
    /\ new_content = <<>>
    /\ edit_pc = "off"

SingleIdle ==
    /\ lines = <<>>
    /\ edit = [start_line |-> 0, start_char |-> 0, end_line |-> 0, end_char |-> 0,
               new_text |-> <<>>]
    /\ result = <<>>
    /\ single_pc = "off"

\* LifecycleSpec: start(), one caller of send_request, shutdown() and a backend
\* that may exit at any time
LifecycleCalls == {1}

LifecycleNext ==
    \/ StartNotFound
    \/ StartSpawn
    \/ HandshakeReplied
    \/ HandshakeDone
    \/ \E c \in LifecycleCalls : Request(c)
    \/ \E c \in Calls : Drained(c)
    \/ \E c \in Calls : Return(c)
    \/ \E c \in Calls : TimeoutFire(c)
    \/ \E c \in Calls : TimeoutHandle(c)
    \/ \E m \in Messages : Receive(m)
    \/ ReceiveEOF
    \/ ReceiveMalformed
    \/ BackendExit
    \/ ShutdownBegin
    \/ ShutdownRequested
    \/ ShutdownCancelReader
    \/ ShutdownCloseStream
    \/ ShutdownTerminate
    \/ ShutdownWaited
    \/ ShutdownKill

FacadeIdle ==
    /\ disk = <<>>
    /\ open_documents = {}
    /\ lsp_initialized = FALSE
    /\ name = "-"
    /\ response = "-"
    /\ facade_pc = "off"
    /\ pending_changes = <<>>
    /\ modified_files = <<>>
    /\ notified = <<>>
    /\ workspace_edit = <<>>
    /\ disk_before = <<>>
    /\ document_call = <<>>
    /\ wire = <<>>
    /\ frame_call = <<>>
    /\ buffer = <<>>
    /\ pipe = <<>>
    /\ file_path = <<>>
    /\ arguments = <<>>
    /\ request_params = <<>>

\* the state after construction; the other components stay as they are
InitSession == SessionInit /\ EditIdle /\ SingleIdle /\ FacadeIdle

SessionSpec == InitSession /\ [][SessionNext]_vars

LifecycleSpec == InitSession /\ [][LifecycleNext]_vars

\* What the event loop guarantees: a finished future wakes its caller, the
\* timer of wait_for fires, and the except clause runs.  Nothing makes the
\* backend read its input or reply: Drained and Receive are not fair.
SessionFairness ==
    \A c \in Calls :
        /\ WF_vars(Return(c))
        /\ WF_vars(TimeoutFire(c))
        /\ WF_vars(TimeoutHandle(c))

FairSessionSpec == InitSession /\ [][SessionNext]_vars /\ SessionFairness

----------------------------------------------------------------------------
(* Text: a sequence of one-character strings.                              *)

LF == "\n"
CR == "\r"
FF == "\f"

Min(a, b) == IF a <= b THEN a ELSE b
Max(a, b) == IF a >= b THEN a ELSE b

\* Python slices s[:n] and s[n:] for n >= 0
Take(s, n) == SubSeq(s, 1, Min(n, Len(s)))
Drop(s, n) == SubSeq(s, Min(n, Len(s)) + 1, Len(s))

Contains(s, ch) == \E i \in 1 .. Len(s) : s[i] = ch

\* index of the first element of s that is in set, 0 when there is none
RECURSIVE FirstIn(_, _, _)
FirstIn(s, set, i) ==
    IF i > Len(s) THEN 0
    ELSE IF s[i] \in set THEN i
    ELSE FirstIn(s, set, i + 1)

\* "".join(lines)
RECURSIVE Join(_)
Join(ls) == IF ls = <<>> THEN <<>> ELSE Head(ls) \o Join(Tail(ls))

\* open(file_path, "r", encoding="utf-8").read(): text mode with the default
\* newline=None translates "\r\n" and "\r" to "\n" (universal newlines).
RECURSIVE ReadText(_)
ReadText(bytes) ==
    IF bytes = <<>> THEN <<>>
    ELSE IF Head(bytes) = CR
      THEN IF Len(bytes) >= 2 /\ bytes[2] = LF
             THEN <<LF>> \o ReadText(Drop(bytes, 2))
             ELSE <<LF>> \o ReadText(Tail(bytes))
      ELSE <<Head(bytes)>> \o ReadText(Tail(bytes))

\* os.linesep of the platform the server runs on (start() locates the backend
\* with `which`): POSIX.
OsLinesep == <<LF>>

\* open(file_path, "w", encoding="utf-8").write(): text mode with the default
\* newline=None writes every "\n" as os.linesep.
RECURSIVE WriteText(_)
WriteText(text) ==
    IF text = <<>> THEN <<>>
    ELSE (IF Head(text) = LF THEN OsLinesep ELSE <<Head(text)>>) \o WriteText(Tail(text))

\* the characters str.splitlines treats as line boundaries, among those of the model
LineBoundaries == {LF, CR, FF}

\* content.splitlines(keepends=True)
RECURSIVE SplitLines(_)
SplitLines(text) ==
    IF text = <<>> THEN <<>>
    ELSE LET i == FirstIn(text, LineBoundaries, 1)
         IN IF i = 0 THEN <<text>>
            ELSE IF text[i] = CR /\ i < Len(text) /\ text[i + 1] = LF
              THEN <<Take(text, i + 1)>> \o SplitLines(Drop(text, i + 1))
              ELSE <<Take(text, i)>> \o SplitLines(Drop(text, i))

\* s.split("\n")
RECURSIVE SplitOnLF(_)
SplitOnLF(s) ==
    LET i == FirstIn(s, {LF}, 1)
    IN IF i = 0 THEN <<s>>
       ELSE <<Take(s, i - 1)>> \o SplitOnLF(Drop(s, i))

EndsWithCRLF(line) ==
    Len(line) >= 2 /\ line[Len(line) - 1] = CR /\ line[Len(line)] = LF
EndsWithLF(line) == Len(line) >= 1 /\ line[Len(line)] = LF

\* lines 200-207 (and 230-248): the line ending the code takes off a line
LineEnding(line) ==
    IF EndsWithCRLF(line) THEN <<CR, LF>>
    ELSE IF EndsWithLF(line) THEN <<LF>>
    ELSE <<>>
WithoutEnding(line) == Take(line, Len(line) - Len(LineEnding(line)))

\* lines 188-194: an empty list becomes [""], then "\n" lines are appended
\* until index max(start_line, end_line) exists.
RECURSIVE PadLines(_, _)
PadLines(ls, n) ==
    IF Len(ls) > n THEN ls ELSE PadLines(Append(ls, <<LF>>), n)

\* variant of EnsureLines without the empty-file case
EnsureLinesPadOnly(ls, start_line, end_line) == PadLines(ls, Max(start_line, end_line))

\* lines 188-194
EnsureLines(ls, start_line, end_line) ==
    PadLines(IF ls = <<>> THEN << <<>> >> ELSE ls, Max(start_line, end_line))

\* variant of WithEndings that gives every produced line the last ending only
\* when it is the last
WithLastEndingOnly(new_lines, ending, last_ending) ==
    [i \in 1 .. Len(new_lines) |->
        new_lines[i] \o (IF i < Len(new_lines) THEN <<>> ELSE last_ending)]

\* [l + ending for l in new_lines[:-1]] + [new_lines[-1] + last_ending]
WithEndings(new_lines, ending, last_ending) ==
    [i \in 1 .. Len(new_lines) |->
        new_lines[i] \o (IF i < Len(new_lines) THEN ending ELSE last_ending)]

\* variant of Splice that inserts at start_char and keeps the replaced range
SpliceKeepingRange(line, start_char, end_char, new_text) ==
    Take(line, start_char) \o new_text \o Drop(line, start_char)

\* lines 210-212: before + new_text + after
Splice(line, start_char, end_char, new_text) ==
    Take(line, start_char) \o new_text \o Drop(line, end_char)

\* WorkspaceEditManager._apply_single_edit, lines 165-269 (indices 0-based)
ApplySingleEdit(lines0, start_line, start_char, end_line, end_char, new_text) ==
    LET padded == EnsureLines(lines0, start_line, end_line)
        head == Take(padded, start_line)
    IN IF start_line = end_line
         THEN LET line_ending == LineEnding(padded[start_line + 1])
                  line == WithoutEnding(padded[start_line + 1])
                  new_line == Splice(line, start_char, end_char, new_text)
              IN IF Contains(new_line, LF)
                   THEN head \o WithEndings(SplitOnLF(new_line), line_ending, line_ending)
                          \o Drop(padded, start_line + 1)
                   ELSE [padded EXCEPT ![start_line + 1] = new_line \o line_ending]
         ELSE LET start_line_ending == LineEnding(padded[start_line + 1])
                  before == Take(WithoutEnding(padded[start_line + 1]), start_char)
                  end_line_ending == LineEnding(padded[end_line + 1])
                  after == Drop(WithoutEnding(padded[end_line + 1]), end_char)
                  new == before \o new_text \o after
              IN IF Contains(new, LF)
                   THEN head \o WithEndings(SplitOnLF(new), start_line_ending,
                                            end_line_ending)
                          \o Drop(padded, end_line + 1)
                   ELSE head \o << new \o start_line_ending >> \o Drop(padded, end_line + 1)

Edit(sl, sc, el, ec, t) ==
    [start_line |-> sl, start_char |-> sc, end_line |-> el, end_char |-> ec,
     new_text |-> t]

\* the sort key (start line, start character), compared as tuples
KeyLess(e, f) ==
    \/ e.start_line < f.start_line
    \/ e.start_line = f.start_line /\ e.start_char < f.start_char

RemoveAt(s, i) == SubSeq(s, 1, i - 1) \o SubSeq(s, i + 1, Len(s))

\* index of the first edit of es that no edit of es exceeds
FirstMax(es) ==
    CHOOSE i \in 1 .. Len(es) :
        /\ \A j \in 1 .. Len(es) : ~KeyLess(es[i], es[j])
        /\ \A j \in 1 .. (i - 1) : KeyLess(es[j], es[i])

Unsorted(es) == es
\* sorted(text_edits, key=..., reverse=True), lines 129-136: descending by key;
\* the sort is stable, so edits with equal keys keep their listing order.
RECURSIVE SortedEdits(_)
SortedEdits(es) ==
    IF es = <<>> THEN <<>>
    ELSE LET i == FirstMax(es) IN <<es[i]>> \o SortedEdits(RemoveAt(es, i))

\* the loop of lines 139-151
RECURSIVE ApplyEdits(_, _)
ApplyEdits(ls, es) ==
    IF es = <<>> THEN ls
    ELSE ApplyEdits(ApplySingleEdit(ls, Head(es).start_line, Head(es).start_char,
                                    Head(es).end_line, Head(es).end_char,
                                    Head(es).new_text),
                    Tail(es))

\* _apply_text_edits, lines 119-154: new_content for the bytes read
NewContent(bytes, es) ==
    Join(ApplyEdits(SplitLines(ReadText(bytes)), SortedEdits(es)))

\* _apply_text_edits, lines 119-158: the bytes written for the bytes read
ApplyTextEdits(bytes, es) == WriteText(NewContent(bytes, es))

----------------------------------------------------------------------------
(* EditSpec: _apply_text_edits on one file, for every content and every     *)
(* list of edits of the bounded input sets.                                 *)

MaxLen == 2
MaxEdits == 2

Alphabet == {"a", LF, CR}
NewTexts == {<<"x">>, <<"y", LF>>}

SeqsUpTo(S, n) == UNION {[1 .. k -> S] : k \in 0 .. n}

Contents == SeqsUpTo(Alphabet, MaxLen)

\* The lines of a text as the language server counts them: a line ends at
\* "\n", "\r\n" or "\r", and the text after the last terminator is a line.
RECURSIVE LspLines(_)
LspLines(text) ==
    LET i == FirstIn(text, {LF, CR}, 1)
    IN IF i = 0 THEN << [text |-> text, term |-> <<>>] >>
       ELSE IF text[i] = CR /\ i < Len(text) /\ text[i + 1] = LF
         THEN << [text |-> Take(text, i - 1), term |-> <<CR, LF>>] >>
                \o LspLines(Drop(text, i + 1))
         ELSE << [text |-> Take(text, i - 1), term |-> <<text[i]>>] >>
                \o LspLines(Drop(text, i))

\* the (line, character) positions that lie inside a text
Positions(text) ==
    LET ll == LspLines(text)
    IN {<<l, c>> : l \in 0 .. (Len(ll) - 1), c \in 0 .. MaxLen} \cap
       UNION {{<<l, c>> : c \in 0 .. Len(ll[l + 1].text)} : l \in 0 .. (Len(ll) - 1)}

PosLeq(p, q) == p[1] < q[1] \/ (p[1] = q[1] /\ p[2] <= q[2])

\* the edits a plan can hold for a text: start <= end, both inside the text
EditsFor(text) ==
    {Edit(p[1], p[2], q[1], q[2], t) :
        <<p, q>> \in {pq \in Positions(text) \X Positions(text) : PosLeq(pq[1], pq[2])},
        t \in NewTexts}

EditLists(text) == SeqsUpTo(EditsFor(text), MaxEdits)

EditInit ==
    /\ content \in Contents
    /\ text_edits = <<>>
    /\ new_content = <<>>
    /\ edit_pc = "input"

\* _apply_text_edits(file_path, text_edits, lsp_client) on an existing file:
\* read, split, sort, apply, join, write.
ApplyTextEditsCall(es) ==
    /\ edit_pc = "input"
    /\ text_edits' = es
    /\ new_content' = ApplyTextEdits(content, es)
    /\ edit_pc' = "done"
    /\ UNCHANGED content
    /\ UNCHANGED nonEditVars

EditNext ==
    /\ edit_pc = "input"
    /\ \E es \in EditLists(content) : ApplyTextEditsCall(es)

\* the state after construction; the other components stay as they are
InitEdit == EditInit /\ SessionInit /\ SingleIdle /\ FacadeIdle

EditSpec == InitEdit /\ [][EditNext]_vars

----------------------------------------------------------------------------
(* SingleSpec: _apply_single_edit on one list of lines, for the lines of    *)
(* every bounded text and every bounded edit, and for the scenarios of the  *)
(* unit tests.                                                              *)

MaxText == 3
MaxLine == 2
MaxChar == 2

SingleAlphabet == {"a", "b", LF, CR}
SingleNewTexts == {<<>>, <<"x">>, <<"x", LF, "y">>}

\* lists of lines as splitlines(keepends=True) produces them
InputLines == {SplitLines(t) : t \in SeqsUpTo(SingleAlphabet, MaxText)}

\* ranges with start <= end; positions may lie beyond the lines
InputEdits ==
    {Edit(sl, sc, el, ec, t) :
        sl \in 0 .. MaxLine, sc \in 0 .. MaxChar, el \in 0 .. MaxLine,
        ec \in 0 .. MaxChar, t \in SingleNewTexts} \cap
    {e \in [start_line : 0 .. MaxLine, start_char : 0 .. MaxChar,
            end_line : 0 .. MaxLine, end_char : 0 .. MaxChar,
            new_text : SingleNewTexts] :
        PosLeq(<<e.start_line, e.start_char>>, <<e.end_line, e.end_char>>)}

HelloWorld == <<"h", "e", "l", "l", "o", " ", "w", "o", "r", "l", "d">>
HiWorld == <<"h", "i", " ", "w", "o", "r", "l", "d">>

\* test_apply_workspace_edit_with_changes: "hello world", (0,0)-(0,5) -> "hi"
ScenarioHello == [lines |-> SplitLines(HelloWorld),
                  edit |-> Edit(0, 0, 0, 5, <<"h", "i">>)]

\* test_apply_single_edit_multi_line: three lines, (0,5)-(1,8) -> "1\n2"
LineOne == <<"l", "i", "n", "e", " ", "o", "n", "e", LF>>
LineTwo == <<"l", "i", "n", "e", " ", "t", "w", "o", LF>>
LineThree ==
    <<"l", "i", "n", "e", " ", "t", "h", "r", "e", "e", LF>>
OneLF2 == <<"1", LF, "2">>
Line1 == <<"l", "i", "n", "e", " ", "1", LF>>
Two == <<"2", LF>>
TwoThree == <<"2", " ", "t", "h", "r", "e", "e", LF>>

ScenarioMultiLine == [lines |-> <<LineOne, LineTwo, LineThree>>,
                      edit |-> Edit(0, 5, 1, 8, OneLF2)]

\* test_apply_single_edit_empty_file: no lines, (0,0)-(0,0) -> "new content"
NewContentText == <<"n", "e", "w", " ", "c", "o", "n", "t", "e", "n", "t">>

ScenarioEmptyFile == [lines |-> <<>>, edit |-> Edit(0, 0, 0, 0, NewContentText)]

Scenarios == {ScenarioHello, ScenarioMultiLine, ScenarioEmptyFile}

SingleInit ==
    /\ lines \in InputLines \cup {sc.lines : sc \in Scenarios}
    /\ edit = Edit(0, 0, 0, 0, <<>>)
    /\ result = <<>>
    /\ single_pc = "input"

\* the edits tried on a list of lines
EditsOn(ls) ==
    (IF ls \in InputLines THEN InputEdits ELSE {})
    \cup {sc.edit : sc \in {x \in Scenarios : x.lines = ls}}

\* _apply_single_edit(lines, start_line, start_char, end_line, end_char, new_text)
ApplySingleEditCall(e) ==
    /\ single_pc = "input"
    /\ edit' = e
    /\ result' = ApplySingleEdit(lines, e.start_line, e.start_char, e.end_line,
                                 e.end_char, e.new_text)
    /\ single_pc' = "done"
    /\ UNCHANGED lines
    /\ UNCHANGED nonSingleVars

SingleNext ==
    /\ single_pc = "input"
    /\ \E e \in EditsOn(lines) : ApplySingleEditCall(e)

\* the state after construction; the other components stay as they are
InitSingle == SingleInit /\ SessionInit /\ EditIdle /\ FacadeIdle

SingleSpec == InitSingle /\ [][SingleNext]_vars

----------------------------------------------------------------------------
(* FacadeSpec: the tools of PythonRefactorMCPServer (mcp_server.py) called  *)
(* on a small file system.  A request to the backend is summarised by its   *)
(* outcome (SessionSpec has its steps); apply_workspace_edit takes one step *)
(* per element of the plan, and the other tools may run between its steps.  *)
(* The edits of the plans do not lengthen a file, so the files stay within  *)
(* a finite set however many tools are called.                              *)

Files == {"f1", "f2"}
FileBytes == {<<"a">>, <<"a", CR, LF>>}

Absent == [exists |-> FALSE, bytes |-> <<>>]
File(b) == [exists |-> TRUE, bytes |-> b]
FileStates == {Absent} \cup {File(b) : b \in FileBytes}

\* the edit lists a plan can hold for a file
PlanEdits == {<<>>, <<Edit(0, 0, 0, 1, <<"x">>)>>}

\* one element of a plan: the edits of one file, or a resource operation
TextDocumentEdit(f, es) == [op |-> "edit", file |-> f, edits |-> es]
ResourceOperation == [op |-> "kind", file |-> "-", edits |-> <<>>]

PlanLen == Cardinality(Files)

\* "changes" is a dict: every file at most once
ChangesEntries ==
    {es \in SeqsUpTo({TextDocumentEdit(f, e) : f \in Files, e \in PlanEdits}, PlanLen) :
        \A i, j \in 1 .. Len(es) : es[i].file = es[j].file => i = j}

DocumentChangesEntries ==
    SeqsUpTo({TextDocumentEdit(f, e) : f \in Files, e \in PlanEdits}
                 \cup {ResourceOperation}, PlanLen)

\* WorkspaceEdit objects: with "changes", with "documentChanges", with neither
Plans ==
    {[member |-> "changes", entries |-> es] : es \in ChangesEntries}
    \cup {[member |-> "documentChanges", entries |-> es] : es \in DocumentChangesEntries}
    \cup {[member |-> "none", entries |-> <<>>]}

\* what the backend replies to textDocument/rename: a plan with "changes"
RenamePlans == {p \in Plans : p.member = "changes"}
NoPlan == [member |-> "none", entries |-> <<>>]

RequestTools == {"get_definition", "get_references", "get_hover_info",
                 "rename_symbol", "get_code_actions"}
ToolNames == RequestTools \cup {"apply_workspace_edit", "get_diagnostics"}

Notification(method, f, text) == [method |-> method, file |-> f, text |-> text]

\* PythonRefactorMCPServer.__init__, lines 40-47, on any state of the files
FacadeInit ==
    /\ disk \in [Files -> FileStates]
    /\ open_documents = {}
    /\ lsp_initialized = FALSE
    /\ name = "-"
    /\ response = "-"
    /\ facade_pc = "new"
    /\ pending_changes = <<>>
    /\ modified_files = <<>>
    /\ notified = <<>>
    /\ workspace_edit = <<>>
    /\ disk_before = <<>>
    /\ document_call = <<>>
    /\ wire = <<>>
    /\ frame_call = <<>>
    /\ buffer = <<>>
    /\ pipe = <<>>
    /\ file_path = <<>>
    /\ arguments = <<>>
    /\ request_params = <<>>

\* PythonRefactorMCPServer.start, lines 495-506: the client exists afterwards,
\* initialized or not (LSPClient.start raised)
ServerStart(ok) ==
    /\ facade_pc = "new"
    /\ facade_pc' = "idle"
    /\ lsp_initialized' = ok
    /\ UNCHANGED <<disk, open_documents, name, response, pending_changes,
                   modified_files, notified>>
    /\ UNCHANGED nonFacadeVars

\* variant of OpenDocument without the test of the open set
OpenDocumentUntested(d, open, f) ==
    IF ~d[f].exists
      THEN [open |-> open, sent |-> <<>>]
      ELSE [open |-> open \cup {f},
            sent |-> <<Notification("textDocument/didOpen", f, ReadText(d[f].bytes))>>]

\* LSPClient.open_document, lines 337-377: the open set and the notifications
\* sent; a file that is tracked or cannot be read sends nothing
OpenDocument(d, open, f) ==
    IF f \in open \/ ~d[f].exists
      THEN [open |-> open, sent |-> <<>>]
      ELSE [open |-> open \cup {f},
            sent |-> <<Notification("textDocument/didOpen", f, ReadText(d[f].bytes))>>]

\* LSPClient.did_change_document, lines 400-425
DidChangeDocument(d, open, f, text) ==
    LET o == IF f \in open THEN [open |-> open, sent |-> <<>>]
                           ELSE OpenDocument(d, open, f)
    IN [open |-> o.open,
        sent |-> o.sent \o <<Notification("textDocument/didChange", f, text)>>]

\* call_tool, lines 241-245
NotInitialized(n) ==
    /\ ~lsp_initialized
    /\ name' = n
    /\ response' = "not_initialized"
    /\ notified' = <<>>
    /\ UNCHANGED <<disk, open_documents, lsp_initialized, facade_pc, pending_changes,
                   modified_files>>
    /\ UNCHANGED nonFacadeVars

\* call_tool, lines 262-263
UnknownTool ==
    /\ lsp_initialized
    /\ name' = "unknown"
    /\ response' = "unknown_tool"
    /\ notified' = <<>>
    /\ UNCHANGED <<disk, open_documents, lsp_initialized, facade_pc, pending_changes,
                   modified_files>>
    /\ UNCHANGED nonFacadeVars

\* the shape the handlers share: open_document(file_path), then whatever the
\* handler awaits (ok: it did not raise), then the value returned by call_tool
OpenAndReturn(n, f, ok) ==
    /\ lsp_initialized
    /\ LET o == OpenDocument(disk, open_documents, f)
       IN /\ open_documents' = o.open
          /\ notified' = o.sent
    /\ name' = n
    /\ response' = IF ok THEN "result" ELSE "error"
    /\ UNCHANGED <<lsp_initialized, facade_pc, pending_changes, modified_files>>
    /\ UNCHANGED nonFacadeVars

\* _get_definition, lines 282-309
GetDefinition(f, ok) == OpenAndReturn("get_definition", f, ok) /\ UNCHANGED disk

\* _get_references, lines 311-339
GetReferences(f, ok) == OpenAndReturn("get_references", f, ok) /\ UNCHANGED disk

\* _get_hover_info, lines 341-365
GetHoverInfo(f, ok) == OpenAndReturn("get_hover_info", f, ok) /\ UNCHANGED disk

\* _get_code_actions, lines 403-445
GetCodeActions(f, ok) == OpenAndReturn("get_code_actions", f, ok) /\ UNCHANGED disk

\* _get_diagnostics, lines 470-493: open_document and a sleep, no request
GetDiagnostics(f) == OpenAndReturn("get_diagnostics", f, TRUE) /\ UNCHANGED disk

\* the files after every element of a plan was applied to the existing files
RECURSIVE DiskAfterApplying(_, _)
DiskAfterApplying(d, entries) ==
    IF entries = <<>> THEN d
    ELSE LET e == Head(entries)
         IN DiskAfterApplying(
                IF e.op = "edit" /\ d[e.file].exists
                  THEN [d EXCEPT ![e.file] = File(ApplyTextEdits(d[e.file].bytes, e.edits))]
                  ELSE d,
                Tail(entries))

\* variant of DiskAfterRename in which rename_symbol applies the plan it got
DiskAfterRenameApplied(d, plan) == DiskAfterApplying(d, plan.entries)

\* _rename_symbol, lines 389-401: the backend's plan goes into the returned
\* value; the handler opens no file for writing
DiskAfterRename(d, plan) == d

\* _rename_symbol, lines 367-401; plan is the result the backend replied with
RenameSymbol(f, ok, plan) ==
    /\ OpenAndReturn("rename_symbol", f, ok)
    /\ disk' = IF ok THEN DiskAfterRename(disk, plan) ELSE disk

\* variant of IsWorkspaceEdit that lets every plan through
AnyPlanAccepted(plan) == TRUE

\* apply_workspace_edit, lines 60, 69 and 90: the plan has one of the two members
IsWorkspaceEdit(plan) == plan.member \in {"changes", "documentChanges"}

\* variant of FileExists that takes every file for present
FileAssumed(d, f) == TRUE

\* _apply_text_edits, line 116: file_path.exists()
FileExists(d, f) == d[f].exists

\* _apply_workspace_edit, lines 447-468, up to the first element of the plan
\* (apply_workspace_edit, lines 54-90): a plan with neither member raises
ApplyWorkspaceEdit(plan) ==
    /\ lsp_initialized
    /\ facade_pc = "idle"
    /\ name' = "apply_workspace_edit"
    /\ notified' = <<>>
    /\ modified_files' = <<>>
    /\ IF ~IsWorkspaceEdit(plan)
         THEN /\ response' = "invalid_workspace_edit"
              /\ UNCHANGED <<facade_pc, pending_changes>>
         ELSE /\ response' = "-"
              /\ facade_pc' = "applying"
              /\ pending_changes' = plan.entries
    /\ UNCHANGED <<disk, open_documents, lsp_initialized>>
    /\ UNCHANGED nonFacadeVars

\* variant of ApplySkip that leaves the loop at a resource operation
ApplySkipAbandons ==
    /\ facade_pc = "applying"
    /\ pending_changes # <<>>
    /\ Head(pending_changes).op = "kind"
    /\ pending_changes' = <<>>
    /\ name' = "apply_workspace_edit"
    /\ notified' = <<>>
    /\ UNCHANGED <<disk, open_documents, lsp_initialized, response, facade_pc,
                   modified_files>>
    /\ UNCHANGED nonFacadeVars

\* apply_workspace_edit, lines 78-85: a resource operation is logged and skipped
ApplySkip ==
    /\ facade_pc = "applying"
    /\ pending_changes # <<>>
    /\ Head(pending_changes).op = "kind"
    /\ pending_changes' = Tail(pending_changes)
    /\ name' = "apply_workspace_edit"
    /\ notified' = <<>>
    /\ UNCHANGED <<disk, open_documents, lsp_initialized, response, facade_pc,
                   modified_files>>
    /\ UNCHANGED nonFacadeVars

\* _apply_text_edits, lines 116-117: the IOError leaves apply_workspace_edit
\* and call_tool returns the error text
ApplyMissing ==
    /\ facade_pc = "applying"
    /\ pending_changes # <<>>
    /\ Head(pending_changes).op = "edit"
    /\ ~FileExists(disk, Head(pending_changes).file)
    /\ pending_changes' = <<>>
    /\ facade_pc' = "idle"
    /\ response' = "file_does_not_exist"
    /\ name' = "apply_workspace_edit"
    /\ notified' = <<>>
    /\ UNCHANGED <<disk, open_documents, lsp_initialized, modified_files>>
    /\ UNCHANGED nonFacadeVars

\* variant of ApplyFile in which did_change_document runs before the write
ApplyFileNotifiesFirst ==
    /\ facade_pc = "applying"
    /\ pending_changes # <<>>
    /\ Head(pending_changes).op = "edit"
    /\ FileExists(disk, Head(pending_changes).file)
    /\ LET f == Head(pending_changes).file
           es == Head(pending_changes).edits
           o == DidChangeDocument(disk, open_documents, f,
                                  NewContent(disk[f].bytes, es))
       IN /\ disk' = [disk EXCEPT ![f] = File(ApplyTextEdits(disk[f].bytes, es))]
          /\ open_documents' = o.open
          /\ notified' = o.sent
          /\ modified_files' = Append(modified_files, f)
    /\ pending_changes' = Tail(pending_changes)
    /\ name' = "apply_workspace_edit"
    /\ UNCHANGED <<lsp_initialized, response, facade_pc>>
    /\ UNCHANGED nonFacadeVars

\* _apply_text_edits, lines 119-163, and modified_files.append: the file is
\* written, then did_change_document reads the open set and the new file
ApplyFile ==
    /\ facade_pc = "applying"
    /\ pending_changes # <<>>
    /\ Head(pending_changes).op = "edit"
    /\ FileExists(disk, Head(pending_changes).file)
    /\ LET f == Head(pending_changes).file
           es == Head(pending_changes).edits
           written == [disk EXCEPT ![f] = File(ApplyTextEdits(disk[f].bytes, es))]
           o == DidChangeDocument(written, open_documents, f,
                                  NewContent(disk[f].bytes, es))
       IN /\ disk' = written
          /\ open_documents' = o.open
          /\ notified' = o.sent
          /\ modified_files' = Append(modified_files, f)
    /\ pending_changes' = Tail(pending_changes)
    /\ name' = "apply_workspace_edit"
    /\ UNCHANGED <<lsp_initialized, response, facade_pc>>
    /\ UNCHANGED nonFacadeVars

\* apply_workspace_edit, lines 92-93, and _apply_workspace_edit, lines 464-468
ApplyReturn ==
    /\ facade_pc = "applying"
    /\ pending_changes = <<>>
    /\ facade_pc' = "idle"
    /\ response' = "result"
    /\ name' = "apply_workspace_edit"
    /\ notified' = <<>>
    /\ UNCHANGED <<disk, open_documents, lsp_initialized, pending_changes,
                   modified_files>>
    /\ UNCHANGED nonFacadeVars

FacadeNext ==
    \/ \E ok \in BOOLEAN : ServerStart(ok)
    \/ \E n \in ToolNames : NotInitialized(n)
    \/ UnknownTool
    \/ \E f \in Files, ok \in BOOLEAN : GetDefinition(f, ok)
    \/ \E f \in Files, ok \in BOOLEAN : GetReferences(f, ok)
    \/ \E f \in Files, ok \in BOOLEAN : GetHoverInfo(f, ok)
    \/ \E f \in Files, ok \in BOOLEAN :
          \E plan \in (IF ok THEN RenamePlans ELSE {NoPlan}) : RenameSymbol(f, ok, plan)
    \/ \E f \in Files, ok \in BOOLEAN : GetCodeActions(f, ok)
    \/ \E f \in Files : GetDiagnostics(f)
    \/ \E plan \in Plans : ApplyWorkspaceEdit(plan)
    \/ ApplySkip
    \/ ApplyMissing
    \/ ApplyFile
    \/ ApplyReturn

\* the state after construction; the other components stay as they are
InitFacade == FacadeInit /\ SessionInit /\ EditIdle /\ SingleIdle

FacadeSpec == InitFacade /\ [][FacadeNext]_vars

----------------------------------------------------------------------------
(* ApplySpec: one apply_workspace_edit call on a started server, for every  *)
(* plan and every state of the files; the plan and the files at the call    *)
(* are kept to compare the outcome with.                                    *)

\* the plans of the call: those of the facade and the structured plans with
\* one element more, in which a file can come before and after another
ApplyPlans ==
    Plans \cup
    {[member |-> "documentChanges", entries |-> es] :
        es \in [1 .. PlanLen + 1 ->
                  {TextDocumentEdit(f, e) : f \in Files, e \in PlanEdits}
                      \cup {ResourceOperation}]}

\* a server after start() succeeded, about to be given a plan
ApplyInit ==
    /\ disk \in [Files -> FileStates]
    /\ open_documents = {}
    /\ lsp_initialized = TRUE
    /\ name = "-"
    /\ response = "-"
    /\ facade_pc = "idle"
    /\ pending_changes = <<>>
    /\ modified_files = <<>>
    /\ notified = <<>>
    /\ workspace_edit \in ApplyPlans
    /\ disk_before = disk
    /\ document_call = <<>>
    /\ wire = <<>>
    /\ frame_call = <<>>
    /\ buffer = <<>>
    /\ pipe = <<>>
    /\ file_path = <<>>
    /\ arguments = <<>>
    /\ request_params = <<>>

\* call_tool("apply_workspace_edit", {"workspace_edit": ...}), once
ApplyCall ==
    /\ name = "-"
    /\ ApplyWorkspaceEdit(workspace_edit)

ApplyNext ==
    \/ ApplyCall
    \/ ApplySkip
    \/ ApplyMissing
    \/ ApplyFile
    \/ ApplyReturn

\* the state after construction; the other components stay as they are
InitApply == ApplyInit /\ SessionInit /\ EditIdle /\ SingleIdle

ApplySpec == InitApply /\ [][ApplyNext]_vars

----------------------------------------------------------------------------
(* DocumentSpec: concurrent open_document, did_change_document and          *)
(* close_document calls on one started LSPClient whose stream to the        *)
(* backend is open, while the files change on disk.  A call can be          *)
(* suspended in the drain() of each notification it writes; each call       *)
(* records what it found, what it wrote and whether another call ran        *)
(* between its steps.                                                       *)

MaxDocumentCalls == 3
DocumentCalls == 1 .. MaxDocumentCalls

\* the text a did_change_document call carries
NewText == <<"n">>

NoDocumentCall ==
    [op |-> "-", pc |-> "idle", file |-> "-", tracked |-> FALSE, on_disk |-> Absent,
     sent |-> <<>>, open_before |-> {}, open_after |-> {}, overlapped |-> FALSE]

\* LSPClient.__init__, line 48, on any state of the files
DocumentInit ==
    /\ disk \in [Files -> FileStates]
    /\ open_documents = {}
    /\ lsp_initialized = TRUE
    /\ name = "-"
    /\ response = "-"
    /\ facade_pc = "off"
    /\ pending_changes = <<>>
    /\ modified_files = <<>>
    /\ notified = <<>>
    /\ workspace_edit = <<>>
    /\ disk_before = <<>>
    /\ document_call = [t \in DocumentCalls |-> NoDocumentCall]
    /\ wire = <<>>
    /\ frame_call = <<>>
    /\ buffer = <<>>
    /\ pipe = <<>>
    /\ file_path = <<>>
    /\ arguments = <<>>
    /\ request_params = <<>>

InFlight(call) == call.pc \notin {"idle", "done", "raised"}

\* the calls after call t took a step that left it as new: t and every call
\* suspended at that moment have overlapped
Stepped(t, new) ==
    LET others == \E u \in DocumentCalls \ {t} : InFlight(document_call[u])
    IN [u \in DocumentCalls |->
          IF u = t THEN [new EXCEPT !.overlapped = new.overlapped \/ others]
          ELSE IF InFlight(document_call[u])
                 THEN [document_call[u] EXCEPT !.overlapped = TRUE]
                 ELSE document_call[u]]

\* the record of a call made on file f in the current state
Called(op, f) ==
    [op |-> op, pc |-> "idle", file |-> f, tracked |-> f \in open_documents,
     on_disk |-> disk[f], sent |-> <<>>, open_before |-> open_documents,
     open_after |-> {}, overlapped |-> FALSE]

\* open_document, lines 346-373: the test of the open set, the read and the
\* write of the notification, up to the await of drain()
OpenDocumentCall(t, f) ==
    /\ document_call[t].pc = "idle"
    /\ LET o == OpenDocument(disk, open_documents, f)
       IN /\ wire' = wire \o o.sent
          /\ document_call' =
                Stepped(t, [Called("open", f) EXCEPT
                               !.pc = IF o.sent = <<>> THEN "done" ELSE "opening",
                               !.sent = o.sent,
                               !.open_after = open_documents])
    /\ UNCHANGED facadeVars
    /\ UNCHANGED nonDocumentVars

\* open_document, lines 376-377: drain() returned, the file is added to the set
OpenDocumentDrained(t) ==
    /\ document_call[t].op = "open"
    /\ document_call[t].pc = "opening"
    /\ open_documents' = open_documents \cup {document_call[t].file}
    /\ document_call' =
          Stepped(t, [document_call[t] EXCEPT !.pc = "done",
                                              !.open_after = open_documents'])
    /\ UNCHANGED <<disk, lsp_initialized, name, response, facade_pc, pending_changes,
                   modified_files, notified, wire>>
    /\ UNCHANGED nonDocumentVars

\* did_change_document, lines 413-424: a tracked file, or one open_document
\* could not read, gets the change notification at once; otherwise the open
\* notification is written and its drain() awaited
DidChangeCall(t, f) ==
    /\ document_call[t].pc = "idle"
    /\ LET o == OpenDocument(disk, open_documents, f)
           change == Notification("textDocument/didChange", f, NewText)
           out == IF o.sent = <<>> THEN <<change>> ELSE o.sent
       IN /\ wire' = wire \o out
          /\ document_call' =
                Stepped(t, [Called("change", f) EXCEPT
                               !.pc = IF o.sent = <<>> THEN "changing" ELSE "opening",
                               !.sent = out])
    /\ UNCHANGED facadeVars
    /\ UNCHANGED nonDocumentVars

\* lines 376-377 and 416-422: the open notification is drained, the file is
\* added to the set and the change notification is written
DidChangeOpened(t) ==
    /\ document_call[t].op = "change"
    /\ document_call[t].pc = "opening"
    /\ open_documents' = open_documents \cup {document_call[t].file}
    /\ LET change == Notification("textDocument/didChange", document_call[t].file, NewText)
       IN /\ wire' = Append(wire, change)
          /\ document_call' =
                Stepped(t, [document_call[t] EXCEPT !.pc = "changing",
                                                    !.sent = Append(@, change)])
    /\ UNCHANGED <<disk, lsp_initialized, name, response, facade_pc, pending_changes,
                   modified_files, notified>>
    /\ UNCHANGED nonDocumentVars

\* line 424: the change notification is drained and the call returns
DidChangeDrained(t) ==
    /\ document_call[t].op = "change"
    /\ document_call[t].pc = "changing"
    /\ document_call' =
          Stepped(t, [document_call[t] EXCEPT !.pc = "done",
                                              !.open_after = open_documents])
    /\ UNCHANGED wire
    /\ UNCHANGED facadeVars
    /\ UNCHANGED nonDocumentVars

\* variant of CloseSent that writes the notification for any file
CloseSentAlways(open, f) == <<Notification("textDocument/didClose", f, <<>>)>>

\* close_document, lines 389-395: nothing is written for an untracked file
CloseSent(open, f) ==
    IF f \in open THEN <<Notification("textDocument/didClose", f, <<>>)>> ELSE <<>>

\* close_document, lines 389-395, up to the await of drain()
CloseDocumentCall(t, f) ==
    /\ document_call[t].pc = "idle"
    /\ LET out == CloseSent(open_documents, f)
       IN /\ wire' = wire \o out
          /\ document_call' =
                Stepped(t, [Called("close", f) EXCEPT
                               !.pc = IF out = <<>> THEN "done" ELSE "closing",
                               !.sent = out,
                               !.open_after = open_documents])
    /\ UNCHANGED facadeVars
    /\ UNCHANGED nonDocumentVars

\* close_document, line 397: set.remove raises KeyError when the file is no
\* longer in the set
CloseDocumentDrained(t) ==
    /\ document_call[t].op = "close"
    /\ document_call[t].pc = "closing"
    /\ open_documents' = open_documents \ {document_call[t].file}
    /\ document_call' =
          Stepped(t, [document_call[t] EXCEPT
                         !.pc = IF document_call[t].file \in open_documents
                                  THEN "done" ELSE "raised",
                         !.open_after = open_documents'])
    /\ UNCHANGED <<disk, lsp_initialized, name, response, facade_pc, pending_changes,
                   modified_files, notified, wire>>
    /\ UNCHANGED nonDocumentVars

\* another program removes a file or writes it anew; one file is enough to
\* change what open_document finds between two calls
ChangingFiles == {"f1"}
WrittenStates == {Absent, File(<<"a", CR, LF>>)}

FileWritten(f, st) ==
    /\ disk[f] # st
    /\ disk' = [disk EXCEPT ![f] = st]
    /\ UNCHANGED <<open_documents, lsp_initialized, name, response, facade_pc,
                   pending_changes, modified_files, notified>>
    /\ UNCHANGED documentVars
    /\ UNCHANGED nonDocumentVars

DocumentNext ==
    \/ \E t \in DocumentCalls, f \in Files : OpenDocumentCall(t, f)
    \/ \E t \in DocumentCalls : OpenDocumentDrained(t)
    \/ \E t \in DocumentCalls, f \in Files : DidChangeCall(t, f)
    \/ \E t \in DocumentCalls : DidChangeOpened(t)
    \/ \E t \in DocumentCalls : DidChangeDrained(t)
    \/ \E t \in DocumentCalls, f \in Files : CloseDocumentCall(t, f)
    \/ \E t \in DocumentCalls : CloseDocumentDrained(t)
    \/ \E f \in ChangingFiles, st \in WrittenStates : FileWritten(f, st)

InitDocument == DocumentInit /\ SessionInit /\ EditIdle /\ SingleIdle

DocumentSpec == InitDocument /\ [][DocumentNext]_vars

----------------------------------------------------------------------------
(* FrameSpec: concurrent _send_message calls (lsp_client.py 236-255) of     *)
(* send_request and send_notification on one stream.  A frame is its header *)
(* followed by the bytes of its body; the transport takes each write() whole *)
(* into its buffer and empties the buffer into the pipe from the front, any *)
(* number of bytes at a time.                                               *)

MaxFrameCalls == 3
FrameCalls == 1 .. MaxFrameCalls

Byte(t, part) == [call |-> t, part |-> part]

\* lines 246-250: the header and the encoded body of the message of call t
HeaderBytes(t) == <<Byte(t, "header")>>
ContentBytes(t) == <<Byte(t, "body"), Byte(t, "end")>>

\* variant of Writes with one write() for the header and one for the body
WritesSeparately(t) == <<HeaderBytes(t), ContentBytes(t)>>

\* line 252: the write() calls of one _send_message, each followed by drain()
Writes(t) == <<HeaderBytes(t) \o ContentBytes(t)>>

FrameInit ==
    /\ frame_call = [t \in FrameCalls |-> [pc |-> "idle", todo |-> <<>>]]
    /\ buffer = <<>>
    /\ pipe = <<>>
    /\ file_path = <<>>
    /\ arguments = <<>>
    /\ request_params = <<>>

\* send_request (195-210) or send_notification (228-234) reaches _send_message:
\* the first write() is made and drain() awaited
SendMessage(t) ==
    /\ frame_call[t].pc = "idle"
    /\ buffer' = buffer \o Head(Writes(t))
    /\ frame_call' = [frame_call EXCEPT ![t] = [pc |-> "draining",
                                                 todo |-> Tail(Writes(t))]]
    /\ UNCHANGED pipe
    /\ UNCHANGED nonFrameVars

\* line 253: drain() returns; the call makes its next write() or returns
FrameDrained(t) ==
    /\ frame_call[t].pc = "draining"
    /\ IF frame_call[t].todo = <<>>
         THEN /\ frame_call' = [frame_call EXCEPT ![t].pc = "done"]
              /\ UNCHANGED buffer
         ELSE /\ buffer' = buffer \o Head(frame_call[t].todo)
              /\ frame_call' = [frame_call EXCEPT ![t].todo = Tail(@)]
    /\ UNCHANGED pipe
    /\ UNCHANGED nonFrameVars

\* the transport writes the first n bytes of its buffer to the pipe
PipeWritten(n) ==
    /\ n \in 1 .. Len(buffer)
    /\ pipe' = pipe \o Take(buffer, n)
    /\ buffer' = Drop(buffer, n)
    /\ UNCHANGED frame_call
    /\ UNCHANGED nonFrameVars

FrameNext ==
    \/ \E t \in FrameCalls : SendMessage(t)
    \/ \E t \in FrameCalls : FrameDrained(t)
    \/ \E n \in 1 .. 3 * MaxFrameCalls : PipeWritten(n)

FrameIdle ==
    /\ disk = <<>>
    /\ open_documents = {}
    /\ lsp_initialized = FALSE
    /\ name = "-"
    /\ response = "-"
    /\ facade_pc = "off"
    /\ pending_changes = <<>>
    /\ modified_files = <<>>
    /\ notified = <<>>
    /\ workspace_edit = <<>>
    /\ disk_before = <<>>
    /\ document_call = <<>>
    /\ wire = <<>>

InitFrame == FrameInit /\ FrameIdle /\ SessionInit /\ EditIdle /\ SingleIdle

FrameSpec == InitFrame /\ [][FrameNext]_vars

----------------------------------------------------------------------------
(* UriSpec: apply_workspace_edit on a plan whose "changes" member has one    *)
(* entry, keyed by any identifier of a bounded set.  An identifier is a      *)
(* sequence of tokens: a scheme word or one character.  The files of the     *)
(* model lie at /a and, in the working directory /w, at /w/a; / and /w are   *)
(* directories.                                                             *)

MaxUri == 5

SchemeWords == {"file", "FILE", "http"}
UriChars == {"a", ":", "/", "#"}

\* an optional scheme word and colon, an optional "//", then any characters
Uris ==
    {pre \o sl \o rest :
        pre \in {<<>>} \cup {<<w, ":">> : w \in SchemeWords},
        sl \in {<<>>, <<"/", "/">>},
        rest \in SeqsUpTo(UriChars, MaxUri)}

\* str.lower() on a token
Lower(tok) == IF tok = "FILE" THEN "file" ELSE tok

\* the characters urlsplit accepts in a scheme, among the tokens of the model
SchemeChars == SchemeWords \cup {"a"}

\* urllib.parse.urlparse(uri), line 283: the scheme is what precedes the first
\* colon when that is made of scheme characters; after "//" the authority runs
\* to the next "/" or "#"; the path ends at "#"
UrlParse(u) ==
    LET i == FirstIn(u, {":"}, 1)
        hasScheme == i > 1 /\ \A k \in 1 .. i - 1 : u[k] \in SchemeChars
        scheme == IF hasScheme THEN [k \in 1 .. i - 1 |-> Lower(u[k])] ELSE <<>>
        url == IF hasScheme THEN Drop(u, i) ELSE u
        hasNetloc == Len(url) >= 2 /\ url[1] = "/" /\ url[2] = "/"
        after == Drop(url, 2)
        delim == FirstIn(after, {"/", "#"}, 1)
        rest == IF ~hasNetloc THEN url
                ELSE IF delim = 0 THEN <<>> ELSE Drop(after, delim - 1)
        h == FirstIn(rest, {"#"}, 1)
    IN [scheme |-> scheme,
        path |-> IF h = 0 THEN rest ELSE Take(rest, h - 1)]

\* variant of IsFileScheme that accepts every scheme
AnyScheme(parsed) == TRUE

\* line 285: parsed.scheme != "file" raises ValueError
IsFileScheme(parsed) == parsed.scheme = <<"file">>

\* lines 289-292: the slash before a drive letter is removed
WindowsPath(path) ==
    IF Len(path) > 2 /\ path[1] = "/" /\ path[3] = ":" THEN Tail(path) ELSE path

Cwd == <<"/", "w">>

\* a path without repeated and trailing slashes
RECURSIVE Normalised(_)
Normalised(path) ==
    IF path = <<>> THEN <<>>
    ELSE IF Head(path) = "/" /\ (Len(path) = 1 \/ path[2] = "/")
      THEN Normalised(Tail(path))
      ELSE <<Head(path)>> \o Normalised(Tail(path))

\* Path(path).resolve(), line 294: a relative path is taken from the working
\* directory, and the result is absolute and normalised
Resolve(path) ==
    LET abs == IF path # <<>> /\ Head(path) = "/" THEN path ELSE Cwd \o <<"/">> \o path
        n == Normalised(abs)
    IN IF n = <<>> THEN <<"/">> ELSE n

\* _uri_to_path, lines 283-294, for an identifier with the file scheme
UriToPath(u) == Resolve(WindowsPath(UrlParse(u).path))

Directories == {<<"/">>, Cwd}

\* the file of the model at a path, "-" when there is none
FileAt(path) ==
    IF path = <<"/", "a">> THEN "f1"
    ELSE IF path = Cwd \o <<"/", "a">> THEN "f2"
    ELSE "-"

\* file_path.exists(), line 116
PathExists(d, path) ==
    path \in Directories \/ (FileAt(path) # "-" /\ d[FileAt(path)].exists)

UriEdits == <<Edit(0, 0, 0, 1, <<"x">>)>>

UriInit ==
    /\ disk \in {d \in [Files -> FileStates] : d["f2"] = File(<<"a">>)}
    /\ open_documents = {}
    /\ lsp_initialized = TRUE
    /\ name = "-"
    /\ response = "-"
    /\ facade_pc = "idle"
    /\ pending_changes = <<>>
    /\ modified_files = <<>>
    /\ notified = <<>>
    /\ workspace_edit \in {[member |-> "changes",
                            entries |-> <<TextDocumentEdit(u, UriEdits)>>] : u \in Uris}
    /\ disk_before = disk
    /\ document_call = <<>>
    /\ wire = <<>>
    /\ frame_call = <<>>
    /\ buffer = <<>>
    /\ pipe = <<>>
    /\ file_path = <<>>
    /\ arguments = <<>>
    /\ request_params = <<>>

\* call_tool("apply_workspace_edit", ...), up to the first key of "changes"
UriApplyCall ==
    /\ name = "-"
    /\ facade_pc = "idle"
    /\ name' = "apply_workspace_edit"
    /\ facade_pc' = "applying"
    /\ pending_changes' = workspace_edit.entries
    /\ UNCHANGED <<disk, open_documents, lsp_initialized, response, modified_files,
                   notified>>
    /\ UNCHANGED <<applyVars, uriVars>>
    /\ UNCHANGED nonUriVars

\* line 285: the ValueError leaves apply_workspace_edit at line 65, before
\* _apply_text_edits is called
UriRejected ==
    /\ facade_pc = "applying"
    /\ pending_changes # <<>>
    /\ ~IsFileScheme(UrlParse(Head(pending_changes).file))
    /\ pending_changes' = <<>>
    /\ facade_pc' = "idle"
    /\ response' = "only_file_uris"
    /\ UNCHANGED <<disk, open_documents, lsp_initialized, name, modified_files, notified>>
    /\ UNCHANGED <<applyVars, uriVars>>
    /\ UNCHANGED nonUriVars

\* lines 116-120: no file at the path, or open() raises for a directory
UriUnreadable ==
    /\ facade_pc = "applying"
    /\ pending_changes # <<>>
    /\ IsFileScheme(UrlParse(Head(pending_changes).file))
    /\ LET path == UriToPath(Head(pending_changes).file)
       IN /\ path \in Directories \/ ~PathExists(disk, path)
          /\ file_path' = path
          /\ response' = IF path \in Directories THEN "is_a_directory"
                         ELSE "file_does_not_exist"
    /\ pending_changes' = <<>>
    /\ facade_pc' = "idle"
    /\ UNCHANGED <<disk, open_documents, lsp_initialized, name, modified_files, notified>>
    /\ UNCHANGED applyVars
    /\ UNCHANGED nonUriVars

\* lines 65-67: the file at the path is edited and announced, and the path is
\* appended to the list
UriFile ==
    /\ facade_pc = "applying"
    /\ pending_changes # <<>>
    /\ IsFileScheme(UrlParse(Head(pending_changes).file))
    /\ LET path == UriToPath(Head(pending_changes).file)
           f == FileAt(path)
           es == Head(pending_changes).edits
       IN /\ path \notin Directories
          /\ PathExists(disk, path)
          /\ file_path' = path
          /\ LET written == [disk EXCEPT ![f] = File(ApplyTextEdits(disk[f].bytes, es))]
                 o == DidChangeDocument(written, open_documents, f,
                                        NewContent(disk[f].bytes, es))
             IN /\ disk' = written
                /\ open_documents' = o.open
                /\ notified' = o.sent
          /\ modified_files' = Append(modified_files, path)
    /\ pending_changes' = Tail(pending_changes)
    /\ UNCHANGED <<lsp_initialized, name, response, facade_pc>>
    /\ UNCHANGED applyVars
    /\ UNCHANGED nonUriVars

\* lines 92-93 and _apply_workspace_edit, lines 464-468
UriReturn ==
    /\ facade_pc = "applying"
    /\ pending_changes = <<>>
    /\ facade_pc' = "idle"
    /\ response' = "result"
    /\ UNCHANGED <<disk, open_documents, lsp_initialized, name, pending_changes,
                   modified_files, notified>>
    /\ UNCHANGED <<applyVars, uriVars>>
    /\ UNCHANGED nonUriVars

UriNext ==
    \/ UriApplyCall
    \/ UriRejected
    \/ UriUnreadable
    \/ UriFile
    \/ UriReturn

InitUri == UriInit /\ SessionInit /\ EditIdle /\ SingleIdle

UriSpec == InitUri /\ [][UriNext]_vars

----------------------------------------------------------------------------
(* The handlers that take a position (mcp_server.py, lines 282-445) *)

MaxCoordinate == 1

\* line and column as the caller of the tool gives them
Coordinates == -1 .. MaxCoordinate

PositionTools == {"get_definition", "get_references", "get_hover_info", "rename_symbol"}

\* the method of the request each handler sends
Method(n) ==
    CASE n = "get_definition"   -> "textDocument/definition"
      [] n = "get_references"   -> "textDocument/references"
      [] n = "get_hover_info"   -> "textDocument/hover"
      [] n = "rename_symbol"    -> "textDocument/rename"
      [] n = "get_code_actions" -> "textDocument/codeAction"

\* {"line": line, "character": column}
Position(line, column) == [line |-> line, character |-> column]

PositionInit ==
    /\ disk \in [Files -> {Absent, File(<<"a">>)}]
    /\ open_documents = {}
    /\ lsp_initialized = FALSE
    /\ name = "-"
    /\ response = "-"
    /\ facade_pc = "new"
    /\ pending_changes = <<>>
    /\ modified_files = <<>>
    /\ notified = <<>>
    /\ workspace_edit = <<>>
    /\ disk_before = <<>>
    /\ document_call = <<>>
    /\ wire = <<>>
    /\ frame_call = <<>>
    /\ buffer = <<>>
    /\ pipe = <<>>
    /\ file_path = <<>>
    /\ arguments = <<>>
    /\ request_params = <<>>

\* call_tool, lines 241-245, for a handler that takes a position
PositionNotInitialized(n, args) ==
    /\ facade_pc = "idle"
    /\ ~lsp_initialized
    /\ name' = n
    /\ arguments' = args
    /\ request_params' = <<>>
    /\ response' = "not_initialized"
    /\ notified' = <<>>
    /\ UNCHANGED <<disk, open_documents, lsp_initialized, facade_pc, pending_changes,
                   modified_files>>
    /\ UNCHANGED nonPositionVars

\* the handler up to its send_request: open_document(file_path), then the
\* request with the params built from the arguments
HandlerRequests(n, args, params) ==
    /\ facade_pc = "idle"
    /\ lsp_initialized
    /\ LET o == OpenDocument(disk, open_documents, args.file_path)
       IN /\ open_documents' = o.open
          /\ notified' = o.sent
    /\ name' = n
    /\ arguments' = args
    /\ request_params' = [method |-> Method(n), params |-> params]
    /\ response' = "-"
    /\ facade_pc' = "requesting"
    /\ UNCHANGED <<disk, lsp_initialized, pending_changes, modified_files>>
    /\ UNCHANGED nonPositionVars

\* _get_definition 282-309, _get_references 311-339, _get_hover_info 341-365,
\* _rename_symbol 367-401: "position": {"line": line, "character": column}
PositionRequest(n, f, line, column) ==
    HandlerRequests(n, [file_path |-> f, line |-> line, column |-> column],
                    [uri |-> f, position |-> Position(line, column)])

\* _get_code_actions, lines 403-445: "range": {"start": ..., "end": ...}
CodeActionsRequest(f, start_line, start_column, end_line, end_column) ==
    HandlerRequests("get_code_actions",
                    [file_path |-> f, start_line |-> start_line,
                     start_column |-> start_column, end_line |-> end_line,
                     end_column |-> end_column],
                    [uri |-> f,
                     range |-> [start |-> Position(start_line, start_column),
                                end |-> Position(end_line, end_column)]])

\* send_request returned (ok) or raised; call_tool, lines 265-275
PositionReturn(ok) ==
    /\ facade_pc = "requesting"
    /\ facade_pc' = "idle"
    /\ response' = IF ok THEN "result" ELSE "error"
    /\ notified' = <<>>
    /\ UNCHANGED <<disk, open_documents, lsp_initialized, name, pending_changes,
                   modified_files>>
    /\ UNCHANGED positionVars
    /\ UNCHANGED nonPositionVars

PositionNext ==
    \/ \E ok \in BOOLEAN : ServerStart(ok)
    \/ \E n \in PositionTools, f \in Files, line \in Coordinates, column \in Coordinates :
          PositionNotInitialized(n, [file_path |-> f, line |-> line, column |-> column])
    \/ \E n \in PositionTools, f \in Files, line \in Coordinates, column \in Coordinates :
          PositionRequest(n, f, line, column)
    \/ \E f \in Files, sl \in Coordinates, sc \in Coordinates,
          el \in Coordinates, ec \in Coordinates : CodeActionsRequest(f, sl, sc, el, ec)
    \/ \E ok \in BOOLEAN : PositionReturn(ok)

InitPosition == PositionInit /\ SessionInit /\ EditIdle /\ SingleIdle

PositionSpec == InitPosition /\ [][PositionNext]_vars

----------------------------------------------------------------------------
(* Properties of the session *)

Allocated(c) == future[c].st # "none"

\* C1: a caller whose request is resolved receives the result (or the error)
\* of the inbound reply whose id equals the id allocated to its own request,
\* whatever the interleaving of the calls and the order of the replies.
C1_ReplyCorrelatedById ==
    \A c \in Calls :
        outcome[c].kind \in {"result", "lsp_error"} =>
            /\ resolvedBy[c].hasId
            /\ resolvedBy[c].id = request_id[c]
            /\ resolvedBy[c].member = (IF outcome[c].kind = "result" THEN "result"
                                       ELSE "error")
            /\ outcome[c].val = resolvedBy[c].payload

\* a later request has returned its reply while an earlier one is still pending
C1_Witness ==
    \E c, d \in Calls :
        /\ Allocated(c) /\ Allocated(d)
        /\ request_id[c] < request_id[d]
        /\ pc[c] = "waiting" /\ future[c].st = "pending"
        /\ request_id[c] \in DOMAIN pending_requests
        /\ outcome[d].kind = "result"

\* C3: the counter starts at 0 and is incremented before each use: the k-th
\* request of the session gets id k, and no two requests get the same id.
C3_IdsSequential ==
    /\ message_id = Len(allocOrder)
    /\ \A k \in 1 .. Len(allocOrder) : request_id[allocOrder[k]] = k
    /\ \A c, d \in Calls :
           (Allocated(c) /\ Allocated(d) /\ c # d) => request_id[c] # request_id[d]

\* three ids have been given out, two of them to calls that are in flight together
C3_Witness ==
    /\ Len(allocOrder) >= 3
    /\ \E c, d \in UserCalls :
           c # d /\ pc[c] \in {"draining", "waiting"} /\ pc[d] \in {"draining", "waiting"}

TimedOut(c) == outcome[c].kind = "timed_out"

C4_Dropped ==
    \A c \in Calls :
        TimedOut(c) =>
            /\ future[c].st = "cancelled"
            /\ request_id[c] \notin DOMAIN pending_requests
            /\ \A m \in Messages :
                   (m.hasId /\ m.id = request_id[c]) =>
                       LET r == ProcessResult(pending_requests, future, m)
                       IN /\ r.pending = pending_requests
                          /\ r.future = future
                          /\ ~r.crashed
                          /\ r.resolved = NoCall

C4_Step ==
    \A c \in Calls :
        TimedOut(c) =>
            /\ outcome'[c] = outcome[c]
            /\ future'[c] = future[c]
            /\ resolvedBy'[c] = resolvedBy[c]
            /\ (lateReplyTo' = c /\ lateReplyTo # c) =>
                   /\ outcome' = outcome
                   /\ pending_requests' = pending_requests
                   /\ read_task' = read_task

C15_Step ==
    \A c \in UserCalls :
        (pc[c] = "idle" /\ pc'[c] # "idle" /\ ~initialized) =>
            /\ pc'[c] = "done"
            /\ outcome'[c].kind = "not_initialized"
            /\ message_id' = message_id
            /\ request_id' = request_id
            /\ pending_requests' = pending_requests
            /\ future' = future
            /\ sent' = sent

\* C15: while initialized is false, send_request with a method other than
\* "initialize" fails with the not-initialized error, allocates no id, adds
\* no pending entry and writes no frame.
C15_GateBeforeInitialized == [][C15_Step]_vars

\* a request was turned away while the handshake request was in flight
C15_Witness ==
    /\ \E c \in UserCalls : outcome[c].kind = "not_initialized"
    /\ start_pc = "handshake"
    /\ message_id = 1
    /\ Len(sent) = 1
    /\ DOMAIN pending_requests = {1}

\* the request of call c fails in this step: the reader completes its future
\* with an error, or wait_for cancels it
FailsNow(c) ==
    /\ future[c].st = "pending"
    /\ future'[c].st \in {"exception", "cancelled"}

\* C23: when the request of one call fails, the future of every other call and
\* its entry in the pending map are untouched, and the reader task goes on: it
\* leaves the running state only at the end of the stream, which touches
\* neither the pending map nor a future.
C23_Step ==
    /\ \A c \in Calls :
          FailsNow(c) =>
             \A d \in Calls \ {c} :
                /\ future'[d] = future[d]
                /\ request_id[d] \in DOMAIN pending_requests
                      => request_id[d] \in DOMAIN pending_requests'
    /\ (read_task = "running" /\ read_task' # "running")
          => (pending_requests' = pending_requests /\ future' = future)

C23_FailureIsLocal == [][C23_Step]_vars

\* C24: once the reader task has ended, no caller is left waiting on a future
\* that nothing has completed: every request pending at that moment has been
\* failed.
C24_PendingFailedWithReader ==
    read_task = "done"
       => \A c \in Calls : ~(pc[c] = "waiting" /\ future[c].st = "pending")

\* C16: a non-handshake request is accepted only in the ready state, that is
\* with the handshake complete and shutdown() not begun; and once shutdown()
\* has ended no frame is written to the backend.
C16_Step ==
    /\ \A c \in LifecycleCalls :
         (pc[c] = "idle" /\ pc'[c] = "draining")
            => (initialized /\ shutdown_pc = "idle")
    /\ shutdown_pc \in {"returned", "raised"} => sent' = sent

C16_AcceptedOnlyWhenReady == [][C16_Step]_vars

\* C17: when no backend executable is found, start() fails and the session is
\* as constructed: flag false, no process, no reader task, no frame written,
\* no id allocated; and start() does not run again.
C17_AsConstructed ==
    start_pc = "not_found"
       => /\ ~initialized
          /\ process = "none"
          /\ stdin_writer = "none"
          /\ read_task = "none"
          /\ sent = <<>>
          /\ message_id = 0
          /\ pending_requests = <<>>

C17_Step == start_pc = "not_found" => start_pc' = "not_found"

C17_NotFoundLeavesSessionNew == [](C17_AsConstructed) /\ [][C17_Step]_vars

C17_Witness ==
    /\ start_pc = "not_found"
    /\ shutdown_pc = "returned"
    /\ pc[1] = "done"

\* C18: every step of shutdown() on a session whose process was never started
\* leaves the frames written, the pending map, the open set, the flag and the
\* id counter as they were, and the last step returns without raising.
C18_Step ==
    (shutdown_pc' # shutdown_pc /\ process = "none")
       => /\ sent' = sent
          /\ pending_requests' = pending_requests
          /\ open_documents' = open_documents
          /\ initialized' = initialized
          /\ message_id' = message_id
          /\ shutdown_pc' # "raised"
          /\ shutdown_pc = "stopping" => shutdown_pc' = "returned"

C18_StopWithoutStart == [][C18_Step]_vars

C18_Witness ==
    /\ shutdown_pc = "returned"
    /\ process = "none"
    /\ start_pc = "new"

\* C19: shutdown() of a started session never raises to its caller.
C19_ShutdownNeverRaises == process # "none" => shutdown_pc # "raised"

----------------------------------------------------------------------------
(* Properties of the edit engine on one file *)

PermSeqs(es) ==
    {[i \in 1 .. Len(es) |-> es[f[i]]] : f \in Permutations(1 .. Len(es))}

DistinctStarts(es) ==
    \A i, j \in 1 .. Len(es) :
        i # j => (KeyLess(es[i], es[j]) \/ KeyLess(es[j], es[i]))

\* C6 as stated: the content written is the same for every order in which
\* the edits of the file are listed in the plan.
C6_AnyListingOrder ==
    edit_pc = "done" =>
        \A p \in PermSeqs(text_edits) : ApplyTextEdits(content, p) = new_content

\* C6 amended: the content written is the same for every listing order of
\* the edits, provided no two of them start at the same (line, character).
C6_DistinctStartsAnyOrder ==
    (edit_pc = "done" /\ DistinctStarts(text_edits)) =>
        \A p \in PermSeqs(text_edits) : ApplyTextEdits(content, p) = new_content

\* two edits with different starts, listed in ascending order, changed the file
C6_Witness ==
    /\ edit_pc = "done"
    /\ Len(text_edits) = 2
    /\ KeyLess(text_edits[1], text_edits[2])
    /\ new_content # content

\* offset in text of the first character of each line, and of a position
RECURSIVE LineStart(_, _)
LineStart(ll, l) ==
    IF l = 0 THEN 0
    ELSE LineStart(ll, l - 1) + Len(ll[l].text) + Len(ll[l].term)

Offset(text, l, c) == LineStart(LspLines(text), l) + c
StartOffset(text, e) == Offset(text, e.start_line, e.start_char)
EndOffset(text, e) == Offset(text, e.end_line, e.end_char)

NonOverlapping(text, es) ==
    \A i, j \in 1 .. Len(es) :
        i # j => \/ EndOffset(text, es[i]) <= StartOffset(text, es[j])
                 \/ EndOffset(text, es[j]) <= StartOffset(text, es[i])

IsInsert(e) == e.start_line = e.end_line /\ e.start_char = e.end_char

\* edit i takes effect before edit j in the text: it starts earlier; of two
\* edits with the same start the insertion comes first, and insertions at
\* the same position appear in listing order.
RefBefore(text, es, i, j) ==
    \/ StartOffset(text, es[i]) < StartOffset(text, es[j])
    \/ /\ StartOffset(text, es[i]) = StartOffset(text, es[j])
       /\ \/ IsInsert(es[i]) /\ ~IsInsert(es[j])
          \/ IsInsert(es[i]) = IsInsert(es[j]) /\ i < j

\* all ranges of the original text replaced at once: the text from offset
\* pos on, with the ranges of the edits in todo (all at or after pos) replaced
RECURSIVE ReplaceFrom(_, _, _, _)
ReplaceFrom(text, es, todo, pos) ==
    IF todo = {} THEN Drop(text, pos)
    ELSE LET i == CHOOSE k \in todo : \A j \in todo \ {k} : RefBefore(text, es, k, j)
         IN SubSeq(text, pos + 1, StartOffset(text, es[i])) \o es[i].new_text
              \o ReplaceFrom(text, es, todo \ {i}, EndOffset(text, es[i]))

ReplaceAll(text, es) == ReplaceFrom(text, es, 1 .. Len(es), 0)

HasNoCR(text) == ~Contains(text, CR)

\* C7: for pairwise non-overlapping ranges, applying the edits one by one in
\* descending start order writes the content obtained by replacing all the
\* ranges at once in the original content (files with "\n" terminators only).
C7_SequentialEqualsSimultaneous ==
    (edit_pc = "done" /\ HasNoCR(content) /\ NonOverlapping(content, text_edits)) =>
        new_content = ReplaceAll(content, text_edits)

\* every "\r" of the text is followed by "\n": the terminators are "\n",
\* "\r\n" or none at the end of the file
RECURSIVE IsLfCrlfText(_)
IsLfCrlfText(text) ==
    IF text = <<>> THEN TRUE
    ELSE IF Head(text) = CR
      THEN Len(text) >= 2 /\ text[2] = LF /\ IsLfCrlfText(Drop(text, 2))
      ELSE IsLfCrlfText(Tail(text))

RECURSIVE CountLF(_)
CountLF(t) == IF t = <<>> THEN 0
              ELSE (IF Head(t) = LF THEN 1 ELSE 0) + CountLF(Tail(t))

\* line i (0-based) lies outside the range of every edit
Untouched(es, i) ==
    \A k \in 1 .. Len(es) : ~(es[k].start_line <= i /\ i <= es[k].end_line)

\* how far the edits that end above line i move it
RECURSIVE LineShift(_, _)
LineShift(es, i) ==
    IF es = <<>> THEN 0
    ELSE (IF Head(es).end_line < i
            THEN CountLF(Head(es).new_text) - (Head(es).end_line - Head(es).start_line)
            ELSE 0) + LineShift(Tail(es), i)

\* C8: after apply, every line outside all edit ranges has the text and the
\* terminator ("\n", "\r\n" or none) it had before, also in a file that
\* mixes terminators.
C8_UntouchedLinesKept ==
    (/\ edit_pc = "done" /\ text_edits # <<>>
     /\ IsLfCrlfText(content) /\ NonOverlapping(content, text_edits)) =>
        LET old == LspLines(content)
            new == LspLines(new_content)
        IN \A i \in 0 .. (Len(old) - 1) :
               Untouched(text_edits, i) =>
                   LET j == i + LineShift(text_edits, i)
                   IN j \in 0 .. (Len(new) - 1) /\ new[j + 1] = old[i + 1]

\* C9: a plan whose edit list for an existing file is empty leaves the file
\* byte-identical, for every mix of "\n", "\r\n" and a missing final terminator.
C9_EmptyEditListKeepsBytes ==
    (edit_pc = "done" /\ text_edits = <<>> /\ IsLfCrlfText(content)) =>
        new_content = content

----------------------------------------------------------------------------
(* Properties of _apply_single_edit *)

\* the text and the terminator of one line of a list of lines
LineText(line) == LspLines(line)[1].text
LineTerm(line) == LspLines(line)[1].term

\* start and end on the same existing line, positions within the line,
\* replacement text without a line break
IsSingleLineEdit(ls, e) ==
    /\ e.start_line = e.end_line
    /\ e.start_line < Len(ls)
    /\ e.start_char <= e.end_char
    /\ e.end_char <= Len(LineText(ls[e.start_line + 1]))
    /\ ~Contains(e.new_text, LF) /\ ~Contains(e.new_text, CR)

\* C10: a single-line edit turns its line into prefix-before-start +
\* replacement + suffix-after-end followed by the line's original terminator
\* and leaves every other line and the line count unchanged; "hello world"
\* with (0,0)-(0,5) -> "hi" becomes "hi world".
C10_SingleLineEdit ==
    single_pc = "done" =>
        /\ IsSingleLineEdit(lines, edit) =>
               LET old == lines[edit.start_line + 1]
               IN result = [lines EXCEPT ![edit.start_line + 1] =
                               Take(LineText(old), edit.start_char) \o edit.new_text
                                 \o Drop(LineText(old), edit.end_char) \o LineTerm(old)]
        /\ (lines = ScenarioHello.lines /\ edit = ScenarioHello.edit) =>
               Join(result) = HiWorld

\* a non-empty range inside a terminated line that is not the only line has
\* been replaced by a non-empty text
C10_Witness ==
    /\ single_pc = "done"
    /\ IsSingleLineEdit(lines, edit)
    /\ Len(lines) >= 2
    /\ edit.start_char < edit.end_char
    /\ edit.new_text # <<>>
    /\ LineTerm(lines[edit.start_line + 1]) # <<>>

----------------------------------------------------------------------------
(* Properties of the facade *)

C2_Step ==
    disk' # disk => (facade_pc = "applying" /\ name' = "apply_workspace_edit")

\* C2: a step of any tool other than apply_workspace_edit (get_definition,
\* get_references, get_hover_info, rename_symbol, get_code_actions,
\* get_diagnostics) leaves every file on disk unchanged; rename_symbol returns
\* its plan without writing, and the files change only in a step of a running
\* apply_workspace_edit call.
C2_OnlyApplyWrites == [][C2_Step]_vars

\* rename_symbol has returned a plan after an earlier apply_workspace_edit
\* had written a file
C2_Witness ==
    /\ name = "rename_symbol"
    /\ response = "result"
    /\ modified_files # <<>>
    /\ \E f \in Files : disk[f].exists /\ disk[f].bytes \notin FileBytes

\* the multi-line scenario has been applied
MultiLineDone ==
    /\ single_pc = "done"
    /\ lines = ScenarioMultiLine.lines
    /\ edit = ScenarioMultiLine.edit

C12_EmptyFileOneLine ==
    (/\ single_pc = "done"
     /\ lines = <<>>
     /\ edit.start_line = 0 /\ edit.start_char = 0
     /\ edit.end_line = 0 /\ edit.end_char = 0
     /\ ~Contains(edit.new_text, LF) /\ ~Contains(edit.new_text, CR))
    => result = <<edit.new_text>>

\* "new content" has been put into the empty file
C12_Witness ==
    /\ single_pc = "done"
    /\ lines = <<>>
    /\ edit = ScenarioEmptyFile.edit
    /\ result = <<NewContentText>>

----------------------------------------------------------------------------
(* Properties of one apply_workspace_edit call *)

ApplyCalled == name = "apply_workspace_edit"

\* the files of the per-file edit groups among some elements of a plan
EditedFiles(entries) ==
    {entries[i].file : i \in {j \in 1 .. Len(entries) : entries[j].op = "edit"}}

\* C13: a plan with neither "changes" nor "documentChanges" makes the call
\* fail with the invalid-plan error; no file is written, no notification is
\* sent and no document is opened.
C13_MalformedPlanFails ==
    (ApplyCalled /\ workspace_edit.member \notin {"changes", "documentChanges"}) =>
        /\ response = "invalid_workspace_edit"
        /\ facade_pc = "idle"
        /\ disk = disk_before
        /\ notified = <<>>
        /\ open_documents = {}
        /\ modified_files = <<>>

\* the malformed plan was given to a server that has a file it could write
C13_Witness ==
    /\ ApplyCalled
    /\ workspace_edit.member = "none"
    /\ response = "invalid_workspace_edit"
    /\ \E f \in Files : disk[f].exists

\* positions of the per-file edit groups whose file was missing at the call
MissingAt(plan, d) ==
    {i \in 1 .. Len(plan.entries) :
        plan.entries[i].op = "edit" /\ ~d[plan.entries[i].file].exists}

FirstMissing(plan, d) ==
    CHOOSE i \in MissingAt(plan, d) : \A j \in MissingAt(plan, d) : i <= j

\* the elements of the plan listed before the first missing file
BeforeMissing(plan, d) == Take(plan.entries, FirstMissing(plan, d) - 1)

\* the call has ended on a plan that names a missing file
EndedOnMissing ==
    /\ ApplyCalled
    /\ facade_pc = "idle"
    /\ workspace_edit.member \in {"changes", "documentChanges"}
    /\ MissingAt(workspace_edit, disk_before) # {}

C14_Ended ==
    EndedOnMissing =>
        LET before == BeforeMissing(workspace_edit, disk_before)
        IN /\ response = "file_does_not_exist"
           /\ disk = DiskAfterApplying(disk_before, before)
           /\ \A f \in Files : ~disk_before[f].exists => ~disk[f].exists
           /\ \A f \in Files \ EditedFiles(before) : disk[f] = disk_before[f]
           /\ open_documents = EditedFiles(before)

\* a step sends notifications only for the file of the element it processes
C14_Step ==
    notified' # <<>> =>
        /\ pending_changes # <<>>
        /\ \A i \in 1 .. Len(notified') :
               /\ notified'[i].file = Head(pending_changes).file
               /\ disk[notified'[i].file].exists

\* C14: a plan naming a file that does not exist makes apply fail with the
\* file-does-not-exist error; the files processed before it keep what was
\* written to them, and the missing file and the files listed after it are
\* neither created nor modified nor announced to the backend.
C14_MissingTargetFails == [](C14_Ended) /\ [][C14_Step]_vars

\* the call failed on a missing file after it had changed another file, and
\* the plan lists a further element after the missing file
C14_Witness ==
    /\ EndedOnMissing
    /\ response = "file_does_not_exist"
    /\ \E f \in Files : disk[f] # disk_before[f]
    /\ FirstMissing(workspace_edit, disk_before) < Len(workspace_edit.entries)

----------------------------------------------------------------------------
(* Properties of the document calls *)

OpenReturned(t) == document_call[t].op = "open" /\ document_call[t].pc = "done"

\* lines 353-373: the notification open_document builds from what it read
DidOpenOf(f, st) == Notification("textDocument/didOpen", f, ReadText(st.bytes))

\* C20 as stated: a call on an untracked file has sent exactly one open
\* notification with the content the file had and the file is in the open set
\* when the call returns; a call on a tracked file has sent nothing and leaves
\* the open set as it was.
C20_ReturnedAsStated ==
    \A t \in DocumentCalls :
        (OpenReturned(t) /\ ~document_call[t].tracked)
           => document_call[t].sent =
                 <<DidOpenOf(document_call[t].file, document_call[t].on_disk)>>

C20_StepAsStated ==
    \A t \in DocumentCalls :
        (~OpenReturned(t) /\ OpenReturned(t)')
           => IF document_call'[t].tracked
                THEN open_documents' = open_documents /\ document_call'[t].sent = <<>>
                ELSE document_call'[t].file \in open_documents'

C20_AsStated == [](C20_ReturnedAsStated) /\ [][C20_StepAsStated]_vars

\* C20: a call on an untracked file that can be read has sent exactly one open
\* notification, carrying the text read from the file at the call, and the
\* file is in the open set when the call returns; a call on an untracked file
\* that cannot be read, and a call on a tracked file, have sent nothing and
\* leave the open set as it was.
C20_Returned ==
    \A t \in DocumentCalls :
        OpenReturned(t) =>
            document_call[t].sent =
                IF ~document_call[t].tracked /\ document_call[t].on_disk.exists
                  THEN <<DidOpenOf(document_call[t].file, document_call[t].on_disk)>>
                  ELSE <<>>

C20_Step ==
    \A t \in DocumentCalls :
        (~OpenReturned(t) /\ OpenReturned(t)')
           => IF ~document_call'[t].tracked /\ document_call'[t].on_disk.exists
                THEN document_call'[t].file \in open_documents'
                ELSE open_documents' = open_documents

C20_EnsureOpen == [](C20_Returned) /\ [][C20_Step]_vars

\* an untracked readable file with CRLF was opened and a tracked file was
\* opened again
C20_Witness ==
    \E t, u \in DocumentCalls :
        /\ OpenReturned(t) /\ OpenReturned(u)
        /\ ~document_call[t].tracked
        /\ document_call[t].on_disk = File(<<"a", CR, LF>>)
        /\ document_call[t].sent # <<>>
        /\ document_call[u].tracked

ChangeReturned(t) == document_call[t].op = "change" /\ document_call[t].pc = "done"

IsNotification(n, method, f) == n.method = method /\ n.file = f

\* the change notification at position i of the wire has an open notification
\* for its file before it, with no close notification for that file in between
OpenedBefore(i) ==
    \E j \in 1 .. i - 1 :
        /\ IsNotification(wire[j], "textDocument/didOpen", wire[i].file)
        /\ \A k \in j + 1 .. i - 1 :
              ~IsNotification(wire[k], "textDocument/didClose", wire[i].file)

\* C21: a did_change_document call that returned has left its file in the open
\* set, and every change notification on the wire is preceded by an open
\* notification for its file with no close notification for it in between.
C21_ChangeFollowsOpen ==
    /\ \A t \in DocumentCalls :
          ChangeReturned(t) => document_call[t].file \in document_call[t].open_after
    /\ \A i \in 1 .. Len(wire) :
          wire[i].method = "textDocument/didChange" => OpenedBefore(i)

CloseReturned(t) == document_call[t].op = "close" /\ document_call[t].pc = "done"

\* call t was made on the file of call u in the state u left, and neither ran
\* together with another call
Repeats(t, u) ==
    /\ t # u
    /\ document_call[t].op = document_call[u].op
    /\ document_call[t].file = document_call[u].file
    /\ document_call[t].pc = "done" /\ document_call[u].pc = "done"
    /\ ~document_call[t].overlapped /\ ~document_call[u].overlapped
    /\ document_call[t].open_before = document_call[u].open_after
    /\ document_call[t].on_disk = document_call[u].on_disk

\* C22: an open_document call on a tracked file and a close_document call on
\* an untracked file have written nothing and left the open set as it was, and a
\* did_change_document call repeated in the state the first one left leaves the
\* open set as the first did.
C22_RepeatChangesNothing ==
    \A t \in DocumentCalls :
        /\ (OpenReturned(t) /\ document_call[t].tracked)
              => /\ document_call[t].sent = <<>>
                 /\ document_call[t].open_after = document_call[t].open_before
        /\ (CloseReturned(t) /\ ~document_call[t].tracked)
              => /\ document_call[t].sent = <<>>
                 /\ document_call[t].open_after = document_call[t].open_before
        /\ \A u \in DocumentCalls :
              (ChangeReturned(t) /\ Repeats(t, u))
                 => document_call[t].open_after = document_call[u].open_after

\* a did_change_document call that opened its file was repeated
C22_Witness ==
    \E t, u \in DocumentCalls :
        /\ ChangeReturned(t) /\ Repeats(t, u)
        /\ document_call[u].open_before = {}
        /\ document_call[u].open_after # {}

----------------------------------------------------------------------------
(* Properties of the frames on the stream *)

\* the part that follows a part inside one frame
PartAfter(part) == IF part = "header" THEN "body" ELSE "end"

\* the bytes of stream st are whole frames one after another, the last one
\* possibly not yet complete
Contiguous(st) ==
    /\ st # <<>> => st[1].part = "header"
    /\ \A i \in 1 .. Len(st) - 1 :
          IF st[i].part = "end"
            THEN st[i + 1].part = "header"
            ELSE /\ st[i + 1].call = st[i].call
                 /\ st[i + 1].part = PartAfter(st[i].part)

\* C25: the bytes written to the backend, and those still in the buffer behind
\* them, are whole frames one after another: no byte of another frame lies
\* between the header and the last byte of a frame.
C25_FramesContiguous == Contiguous(pipe) /\ Contiguous(pipe \o buffer)

\* the transport has written only the header of one call's frame and holds the
\* rest of it, followed by the whole frame of another call
C25_Witness ==
    \E t, u \in FrameCalls :
        /\ t # u
        /\ pipe = HeaderBytes(t)
        /\ buffer = ContentBytes(t) \o HeaderBytes(u) \o ContentBytes(u)

----------------------------------------------------------------------------
(* Properties of apply_workspace_edit on a plan keyed by an identifier *)

UriOf == workspace_edit.entries[1].file

UriDone == name = "apply_workspace_edit" /\ facade_pc = "idle"

\* the identifier begins with the word file, in either case, and a colon
HasFileScheme(u) == Len(u) >= 2 /\ Lower(u[1]) = "file" /\ u[2] = ":"

\* the identifier without its scheme, colon and double slash
StripScheme(u) ==
    IF Len(u) >= 4 /\ u[3] = "/" /\ u[4] = "/" THEN Drop(u, 4) ELSE Drop(u, 2)

\* apply failed on the identifier and nothing was read, written or announced
RejectedUntouched ==
    /\ response = "only_file_uris"
    /\ file_path = <<>>
    /\ disk = disk_before
    /\ notified = <<>>
    /\ open_documents = {}
    /\ modified_files = <<>>

PlainFileUri(u) ==
    /\ HasFileScheme(u)
    /\ Len(u) >= 5 /\ u[3] = "/" /\ u[4] = "/" /\ u[5] = "/"
    /\ ~Contains(u, "#")
    /\ StripScheme(u) = Normalised(StripScheme(u))
    /\ ~(Len(u) > 6 /\ u[7] = ":")

\* file:///, one character and a colon: a drive letter
DriveFileUri(u) ==
    /\ HasFileScheme(u)
    /\ Len(u) > 6 /\ u[3] = "/" /\ u[4] = "/" /\ u[5] = "/" /\ u[7] = ":"
    /\ u[6] # "/"
    /\ ~Contains(u, "#")

----------------------------------------------------------------------------
(* Properties of the handlers that take a position *)

\* the coordinates among the arguments of the last call
CoordinatesOf(args) ==
    IF "line" \in DOMAIN args THEN {args.line, args.column}
    ELSE {args.start_line, args.start_column, args.end_line, args.end_column}

\* the coordinates in the params of the request that was sent
Forwarded(params) ==
    IF "position" \in DOMAIN params
      THEN <<params.position.line, params.position.character>>
      ELSE <<params.range.start.line, params.range.start.character,
             params.range.end.line, params.range.end.character>>

\* the coordinates of the arguments in the order the params list them
Given(args) ==
    IF "line" \in DOMAIN args THEN <<args.line, args.column>>
    ELSE <<args.start_line, args.start_column, args.end_line, args.end_column>>

\* C27: a handler given a negative line or column ends with an invalid-position
\* error and sends no request; given non-negative coordinates it puts them
\* unchanged into the request it sends.
C27_NegativeRejected ==
    (arguments # <<>> /\ lsp_initialized) =>
        IF \E x \in CoordinatesOf(arguments) : x < 0
          THEN request_params = <<>> /\ response \in {"-", "invalid_position"}
          ELSE /\ request_params # <<>>
               /\ Forwarded(request_params.params) = Given(arguments)

----------------------------------------------------------------------------
(* Properties of the pending map *)

Resolved(fut) == fut.st \in {"result", "exception"}

\* the entry of call c is in the pending map
Registered(pr, c) ==
    future[c].st # "none" /\ request_id[c] \in DOMAIN pr /\ pr[request_id[c]] = c

C28_Step ==
    \A c \in Calls :
        /\ Resolved(future[c]) => future'[c] = future[c]
        /\ (Registered(pending_requests, c) /\ ~Registered(pending_requests', c))
              => \/ future[c].st = "pending" /\ Resolved(future'[c])
                 \/ pc[c] = "timing_out" /\ outcome'[c].kind = "timed_out"

\* C28: a future is resolved at most once, and the entry of a call leaves the
\* pending map only in the step that resolves its future (with the result or
\* the error of the reply) or in its own caller's timeout handling: no inbound
\* message removes an entry and leaves the caller unresolved.
C28_RemovedOnlyWhenResolved == [][C28_Step]_vars

\* C29: when the frame of a request cannot be written (the stream to the
\* backend is closed or lost), the call fails and its id is not in the pending
\* map afterwards: no entry stays behind for a caller that has stopped waiting.
C29_WriteFailureLeavesNoEntry ==
    \A c \in Calls :
        /\ (pc[c] = "done" /\ outcome[c].kind = "connection_lost")
              => ~Registered(pending_requests, c)
        /\ pc[c] = "done" => ~Registered(pending_requests, c)

\* C30: a message of the backend that carries an id and a method (a request to
\* the client) removes no entry from the pending map and completes no future
\* when the reader processes it, also when its id is that of a pending request.
C30_ServerRequestTouchesNothing ==
    read_task = "running" =>
        \A m \in Messages :
            (m.hasId /\ m.member = "method") =>
                LET r == ProcessResult(pending_requests, future, m)
                IN /\ r.pending = pending_requests
                   /\ r.future = future
                   /\ r.resolved = NoCall

----------------------------------------------------------------------------
(* Properties of the duration of a request *)

\* C31: every call of send_request that has been accepted returns to its
\* caller, with a result or a failure, whatever the backend does: also when it
\* never replies and when it does not read its input.
C31_RequestReturns ==
    \A c \in Calls : (pc[c] \in {"draining", "waiting", "timing_out"}) ~> (pc[c] = "done")

----------------------------------------------------------------------------
(* Properties of the handshake *)

IsFrame(fr, kind, method) == fr.kind = kind /\ fr.method = method

InitializedWritten == \E i \in 1 .. Len(sent) : IsFrame(sent[i], "notification", "initialized")

HandshakeFailed == outcome[HandshakeCall].kind \notin {"none", "result"}

C32_Order ==
    /\ sent # <<>> => IsFrame(sent[1], "request", "initialize")
    /\ InitializedWritten =>
          /\ outcome[HandshakeCall].kind = "result"
          /\ server_capabilities = outcome[HandshakeCall].val
    /\ initialized => InitializedWritten
    /\ HandshakeFailed => (~initialized /\ ~InitializedWritten)

C32_Step ==
    (start_pc \in {"notifying", "started", "failed"} \/ initialized)
        => server_capabilities' = server_capabilities

\* C32: in start() the initialize request is the first frame written, the
\* capabilities of its reply are stored before the initialized notification is
\* written, and the flag is true only after that notification was written; if
\* the initialize request fails the flag stays false and the notification is
\* never written; after the handshake the capabilities never change.
C32_Handshake == [](C32_Order) /\ [][C32_Step]_vars

\* the handshake is over, the flag is true, and another frame was written since
C32_Witness ==
    /\ initialized
    /\ start_pc = "started"
    /\ server_capabilities = "p2"
    /\ Len(sent) >= 3
    /\ IsFrame(sent[2], "notification", "initialized")

----------------------------------------------------------------------------
(* Properties of shutdown() *)

ShutdownWritten(frames) ==
    \E i \in 1 .. Len(frames) : IsFrame(frames[i], "request", "shutdown")

ExitWritten(frames) ==
    \E i \in 1 .. Len(frames) : IsFrame(frames[i], "notification", "exit")

\* shutdown() found the flag true and sent its request
ShutdownOfReady == future[ShutdownCall].st # "none"

\* C33 as stated: every shutdown of a ready session that ends has written the
\* shutdown request and after it the exit notification, and has sent the
\* terminate signal after the reader task was cancelled.
C33_AsStated ==
    (shutdown_pc = "returned" /\ ShutdownOfReady) =>
        /\ \E i, j \in 1 .. Len(sent) :
              /\ i < j
              /\ IsFrame(sent[i], "request", "shutdown")
              /\ IsFrame(sent[j], "notification", "exit")
        /\ read_task # "running"
        /\ signals # <<>> /\ Head(signals) = "terminate"

C33_Order ==
    /\ ExitWritten(sent) =>
          /\ outcome[ShutdownCall].kind = "result"
          /\ \E i, j \in 1 .. Len(sent) :
                /\ i < j
                /\ IsFrame(sent[i], "request", "shutdown")
                /\ IsFrame(sent[j], "notification", "exit")
    /\ signals # <<>> =>
          /\ read_task # "running"
          /\ shutdown_pc \in {"waiting", "returned"}
    /\ signals \in {<<>>, <<"terminate">>, <<"terminate", "kill">>}

C33_Step ==
    \* the exit notification is written when the shutdown request has returned
    \* a result and the stream is open, and in no other step
    /\ (shutdown_pc = "requesting" /\ shutdown_pc' = "cancelling")
          => (ExitWritten(sent') <=>
                (outcome[ShutdownCall].kind = "result" /\ stdin_writer = "open"))
    /\ (ExitWritten(sent') /\ ~ExitWritten(sent))
          => (shutdown_pc = "requesting" /\ read_task' = read_task /\ signals' = <<>>)
    \* the reader task is cancelled after that and before any signal
    /\ (read_task' = "cancelled" /\ read_task # "cancelled")
          => (shutdown_pc = "cancelling" /\ signals' = <<>>)
    \* the kill signal follows a terminate signal the process has outlived
    /\ (Len(signals') > Len(signals) /\ signals'[Len(signals')] = "kill")
          => (shutdown_pc = "waiting" /\ process = "running" /\ signals = <<"terminate">>)

\* C33: in a shutdown of a ready session the exit notification is written only
\* after the shutdown request, and only when that request returned a result (a
\* failed request is followed by no exit notification); then the reader task is
\* cancelled; the terminate signal is sent only after that, and the kill signal
\* only to a process that is still running after the terminate signal.
C33_ShutdownOrder == [](C33_Order) /\ [][C33_Step]_vars

\* a shutdown that went through every stage: request, exit notification,
\* reader cancelled, terminate and kill
C33_Witness ==
    /\ shutdown_pc = "returned"
    /\ ShutdownWritten(sent) /\ ExitWritten(sent)
    /\ read_task = "cancelled"
    /\ signals = <<"terminate", "kill">>

----------------------------------------------------------------------------
(* Properties of one edit on the content *)

\* the number of characters of the first n lines
RECURSIVE LinesLen(_, _)
LinesLen(ls, n) == IF n = 0 THEN 0 ELSE LinesLen(ls, n - 1) + Len(ls[n])

\* line l exists and c is a position of its text
InsideLines(ls, l, c) == l < Len(ls) /\ c <= Len(LineText(ls[l + 1]))

EditInside(ls, e) ==
    /\ InsideLines(ls, e.start_line, e.start_char)
    /\ InsideLines(ls, e.end_line, e.end_char)
    /\ PosLeq(<<e.start_line, e.start_char>>, <<e.end_line, e.end_char>>)

\* the content with the characters from the start to the end of e replaced
Replaced(ls, e) ==
    Take(Join(ls), LinesLen(ls, e.start_line) + e.start_char)
      \o e.new_text
      \o Drop(Join(ls), LinesLen(ls, e.end_line) + e.end_char)

\* C34: for every content and every edit whose positions lie inside it, the
\* content after the edit is the original content with the characters from
\* the start position up to the end position replaced by the replacement
\* text, its line breaks included.
C34_EditReplacesRange ==
    (single_pc = "done" /\ EditInside(lines, edit)) => Join(result) = Replaced(lines, edit)

\* the lines of the result that stand where lines start_line .. end_line stood
Produced(ls, e, res) ==
    SubSeq(res, e.start_line + 1, Len(res) - (Len(ls) - e.end_line - 1))

\* C35: of the lines an edit produces, every one but the last carries the
\* terminator of the original start line and the last carries the terminator
\* of the original end line, whether the edit is on one line or on several,
\* whether or not the replacement holds line breaks and whether or not the
\* end line has a terminator.
C35_ProducedTerminators ==
    (single_pc = "done" /\ EditInside(lines, edit)) =>
        LET pr == Produced(lines, edit, result)
        IN /\ Len(pr) >= 1
           /\ \A i \in 1 .. (Len(pr) - 1) :
                 LineTerm(pr[i]) = LineTerm(lines[edit.start_line + 1])
           /\ LineTerm(pr[Len(pr)]) = LineTerm(lines[edit.end_line + 1])

\* the replacement text up to its first line break
FirstLineOf(text) ==
    LET i == FirstIn(text, {LF}, 1) IN IF i = 0 THEN text ELSE Take(text, i - 1)

\* C36: when the start or the end line of an edit lies at or beyond the line
\* count, the lines are padded and nothing is raised; in the written content
\* the replacement text begins on line start_line, and the text of every line
\* that existed before the start line is unchanged.
C36_PaddedEdit ==
    (single_pc = "done"
       /\ (edit.start_line >= Len(lines) \/ edit.end_line >= Len(lines))) =>
        LET ll == LspLines(Join(result))
            first == FirstLineOf(edit.new_text)
        IN /\ \A k \in 1 .. Min(Len(lines), edit.start_line) :
                 k <= Len(ll) /\ ll[k].text = LineText(lines[k])
           /\ edit.start_line >= Len(lines) =>
                 /\ edit.start_line < Len(ll)
                 /\ Take(ll[edit.start_line + 1].text, Len(first)) = first

----------------------------------------------------------------------------
(* Properties of the elements of a structured plan *)

IsEditGroup(entry) == entry.op = "edit"

\* the per-document edit groups of a plan, in plan order
EditGroups(plan) == SelectSeq(plan.entries, IsEditGroup)

FilesOf(entries) == [i \in 1 .. Len(entries) |-> entries[i].file]

\* the call has returned its list of modified files
ApplySucceeded == ApplyCalled /\ facade_pc = "idle" /\ response = "result"

C37_Ended ==
    ApplySucceeded =>
        /\ modified_files = FilesOf(EditGroups(workspace_edit))
        /\ disk = DiskAfterApplying(disk_before, EditGroups(workspace_edit))
        /\ \A f \in Files : disk[f].exists = disk_before[f].exists
        /\ \A f \in Files \ EditedFiles(workspace_edit.entries) : disk[f] = disk_before[f]

\* the step that takes a resource operation from the plan
C37_Step ==
    (/\ facade_pc = "applying"
     /\ pending_changes # <<>>
     /\ ~IsEditGroup(Head(pending_changes))
     /\ pending_changes' # pending_changes) =>
        /\ disk' = disk
        /\ notified' = <<>>
        /\ open_documents' = open_documents
        /\ modified_files' = modified_files
        /\ pending_changes' = Tail(pending_changes)
        /\ facade_pc' = "applying"

\* C37: a resource operation in a structured plan is skipped: the step that
\* takes it creates, deletes and modifies no file, sends no notification and
\* adds nothing to the list of modified files, and the edit groups before and
\* after it are applied, so that the call returns the files of all edit groups.
C37_ResourceOperationSkipped == [](C37_Ended) /\ [][C37_Step]_vars

\* a plan with a resource operation between two edit groups has been applied
\* and both files were changed
C37_Witness ==
    /\ ApplySucceeded
    /\ Len(workspace_edit.entries) = 3
    /\ ~IsEditGroup(workspace_edit.entries[2])
    /\ modified_files = <<"f1", "f2">>
    /\ disk["f1"] # disk_before["f1"]
    /\ disk["f2"] # disk_before["f2"]

----------------------------------------------------------------------------
(* Properties of the step that applies one edit group *)

IsDidChange(n) == n.method = "textDocument/didChange"

IsDidOpen(n) == n.method = "textDocument/didOpen"

\* the plan is being applied and the list so far is the files of the edit
\* groups already taken from it, in plan order
C38_Order ==
    /\ (ApplyCalled /\ facade_pc = "applying") =>
            modified_files \o FilesOf(SelectSeq(pending_changes, IsEditGroup))
                = FilesOf(EditGroups(workspace_edit))
    /\ ApplySucceeded => modified_files = FilesOf(EditGroups(workspace_edit))

\* the step that takes an edit group from the plan and returns from
\* _apply_text_edits
C38_Step ==
    (/\ facade_pc = "applying"
     /\ pending_changes # <<>>
     /\ IsEditGroup(Head(pending_changes))
     /\ modified_files' # modified_files) =>
        LET f == Head(pending_changes).file
            changes == SelectSeq(notified', IsDidChange)
            opens == SelectSeq(notified', IsDidOpen)
        IN /\ Len(changes) = 1
           /\ changes[1].file = f
           /\ disk'[f] = File(WriteText(changes[1].text))
           /\ notified'[Len(notified')] = changes[1]
           /\ \A i \in 1 .. Len(opens) :
                  /\ opens[i].file = f
                  /\ opens[i].text = ReadText(disk'[f].bytes)
           /\ \A g \in Files \ {f} : disk'[g] = disk[g]
           /\ modified_files' = Append(modified_files, f)
           /\ pending_changes' = Tail(pending_changes)

\* C38: for each edit group that is applied, the new content is on disk when
\* did_change_document is invoked (an open notification it sends first
\* carries what the file holds after the write), exactly one change
\* notification is sent for the group and it carries the content that was
\* written, no other file is touched in that step, and the list of modified
\* files is at every moment the files of the groups processed so far, in plan
\* order.
C38_WrittenThenNotified == [](C38_Order) /\ [][C38_Step]_vars

\* a plan that names f2 and then f1 has been applied: both files were changed
\* on disk and both were opened in the backend by their change notification
C38_Witness ==
    /\ ApplySucceeded
    /\ modified_files = <<"f2", "f1">>
    /\ disk["f1"] # disk_before["f1"]
    /\ disk["f2"] # disk_before["f2"]
    /\ "f1" \in open_documents
    /\ "f2" \in open_documents

----------------------------------------------------------------------------
(* Properties of the open and close notifications of one file *)

\* the open and close notifications written for file f, in the order written
OpenClose(f) ==
    SelectSeq(wire, LAMBDA n : /\ n.file = f
                               /\ n.method \in {"textDocument/didOpen",
                                                "textDocument/didClose"})

NoCallInProgress == \A t \in DocumentCalls : ~InFlight(document_call[t])

\* C39: whatever the interleaving of open_document, did_change_document and
\* close_document calls, the open and close notifications written for a file
\* alternate, the first being an open, and when no call is in progress the
\* file is in open_documents exactly when the last of them is an open.
C39_OpenCloseAlternate ==
    \A f \in Files :
        LET s == OpenClose(f)
        IN /\ \A i \in 1 .. Len(s) :
                  s[i].method = IF i % 2 = 1 THEN "textDocument/didOpen"
                                             ELSE "textDocument/didClose"
           /\ NoCallInProgress => (f \in open_documents <=> Len(s) % 2 = 1)

\* C40: a close_document call on a tracked file never ends with an error.
C40_CloseNeverRaises ==
    \A t \in DocumentCalls :
        (document_call[t].op = "close" /\ document_call[t].tracked)
            => document_call[t].pc # "raised"

====
